---- MODULE Spec2Model ----
(***************************************************************************)
(* Model of the Intercom export client (src/src/intercom_export/api/       *)
(* client.py): IntercomClient.get_conversations ("fetch_batch") and        *)
(* IntercomClient.get_conversation ("fetch_one") running against a remote  *)
(* API that may answer each request with a success, a rate-limit (429),    *)
(* an authentication failure (401) or another failure.                     *)
(*                                                                         *)
(* One action is one network round trip of the client together with all    *)
(* the code that handles its response (the except clauses, the sleep, the  *)
(* batch reduction, the advance to the next slice).                        *)
(***************************************************************************)
EXTENDS Integers, Sequences, FiniteSets, TLC

(***************************************************************************)
(* Bounds of the model.                                                    *)
(***************************************************************************)
MaxId == 2
MaxLen == 3
MaxBatch == 3
MaxParts == 2
MaxTags == 2
MaxConversations == 2
MaxCalls == 2
MaxFactoryCalls == 3
MaxRun == 2
MaxAnswer == 1

Ids == 1..MaxId

\* the id lists a caller passes: every list over Ids of at most MaxLen ids
IdLists == UNION {[1..n -> Ids] : n \in 0..MaxLen}

\* the id lists of one run of a script: at most MaxRun ids
RunLists == UNION {[1..n -> Ids] : n \in 0..MaxRun}

(***************************************************************************)
(* Python values.                                                          *)
(***************************************************************************)
\* Optional[x]: None is the empty set, a value v is {v}
None == {}
Some(v) == {v}
The(o) == CHOOSE v \in o : TRUE

Digit(d) ==
  CASE d = 0 -> "0" [] d = 1 -> "1" [] d = 2 -> "2" [] d = 3 -> "3"
    [] d = 4 -> "4" [] d = 5 -> "5" [] d = 6 -> "6" [] d = 7 -> "7"
    [] d = 8 -> "8" [] d = 9 -> "9"

\* str(n) of a non-negative int: its decimal digits
RECURSIVE Str(_)
Str(n) == IF n < 10 THEN Digit(n) ELSE Str(n \div 10) \o Digit(n % 10)

\* int(s) of a header value: Some(n) for the decimal strings, None where
\* Python raises ValueError
ParseInt(s) ==
  CASE s = "0" -> Some(0)
    [] s = "1" -> Some(1)
    [] s = "5" -> Some(5)
    [] OTHER -> None

RECURSIVE Pow2(_)
Pow2(n) == IF n = 0 THEN 1 ELSE 2 * Pow2(n - 1)

\* s[a:b] of a Python list (0-based, b clipped to the length)
Slice(s, a, b) == SubSeq(s, a + 1, IF b < Len(s) THEN b ELSE Len(s))

Range(s) == {s[k] : k \in 1..Len(s)}

(***************************************************************************)
(* The remote API.                                                         *)
(***************************************************************************)
\* a raw conversation record, reduced to its id (a string, as the API sends)
Record(id) == [id |-> Str(id)]

\* a 200 body of the by-id endpoint that is no conversation (it has no id)
NoConversation == [id |-> ""]

\* values of the Retry-After header of a 429 response: absent, or a string
RetryAfterHeaders == {None, Some("0"), Some("5"), Some("soon")}

NoError == [cls |-> "none", msg |-> "", retry_after |-> None]

NoResponse == [status |-> 0, convs |-> <<>>, header |-> None]

VARIABLES
  held,               \* ids of the conversations the remote API holds
  pc,                 \* position of the client: idle, post, get, fallback, returned, raised
  op,                 \* the operation in progress
  conversation_ids,   \* get_conversations: the argument
  batch_size,         \* get_conversations: the argument
  i,                  \* get_conversations: start of the current slice
  batch,              \* get_conversations: the working batch
  payload,            \* get_conversations: the id filter of the request body
  attempt,            \* get_conversations: attempt index within the slice
  all_conversations,  \* get_conversations: the accumulated records
  conversation_id,    \* get_conversation: the argument
  result,             \* the value returned, Some(v), once pc = "returned"
  error,              \* the exception raised, once pc = "raised"
  requests,           \* history: the requests issued by the current call
  response,           \* history: the response to the last of them
  sleeps,             \* history: the time.sleep calls made for the current slice
  clean,              \* history: every response so far was a plain success
  singles             \* history: per id, the record last fetched on its own

clientVars == <<held, pc, op, conversation_ids, batch_size, i, batch, payload,
                attempt, all_conversations, conversation_id, result, error,
                requests, response, sleeps, clean, singles>>

VARIABLES
  api_data,           \* Conversation.from_api_data: the raw record it is given, Some(data)
  conversation,       \* Conversation.from_api_data: the Conversation it made, Some(c)
  conv_exc,           \* Conversation.from_api_data: the exception it raised, Some(e)
  markdown,           \* MarkdownFormatter.format_conversation of the Conversation
  as_dict             \* Conversation.to_dict of the Conversation

modelVars == <<api_data, conversation, conv_exc, markdown, as_dict>>

VARIABLES
  formatter,          \* a formatter object: its class and its options
  conversations,      \* the list of Conversations that its caller holds
  file,               \* self.file: the text that the sink holds, "" without a sink
  called,             \* the method called last and its argument
  returned,           \* what that call returned or raised, Some(r)
  written,            \* what that call wrote to the sink, Some(text)
  calls               \* the number of calls made on the formatter

formatVars == <<formatter, conversations, file, called, returned, written, calls>>

VARIABLES
  FORMATTERS,         \* factory.FORMATTERS: the class registered for each name
  factory_called,     \* the function of the factory called last, and its arguments
  factory_returned,   \* what that call returned or raised, Some(r)
  registrations,      \* the calls of register_formatter that returned, in order
  factory_calls       \* the number of calls made on the factory

factoryVars == <<FORMATTERS, factory_called, factory_returned, registrations,
                 factory_calls>>

VARIABLES
  raw_conversations_json, \* the cache file: Some(text), None while there is no file
  conversations_md,       \* conversations.md: the records whose markdown it holds
  todo,                   \* main: the ids that its loop has not taken yet
  done,                   \* history: the ids that its loop has taken, in order
  convo_id,               \* process_single_conversation: the argument
  stage,                  \* position of the script: loop, fetch, exit0, exit1
  fetched                 \* history: the records get_conversation returned to the script

cacheVars == <<raw_conversations_json, conversations_md, todo, done, convo_id,
               stage, fetched>>

VARIABLES
  args,                   \* cli.export_conversations: conversation_ids, batch_size, format
  cli_stage,              \* position of the command: start, fetch, exit0, exit1
  output_opened,          \* open(args.output, 'w') was called
  formatted               \* the number of conversations the formatter has formatted

cliVars == <<args, cli_stage, output_opened, formatted>>

\* the state of everything that is not the client
otherVars == <<modelVars, formatVars, factoryVars, cacheVars, cliVars>>

\* the state of everything that is not a Conversation being made
aroundModel == <<clientVars, formatVars, factoryVars, cacheVars, cliVars>>

\* the state of everything that is not a formatter at work
aroundFormat == <<clientVars, modelVars, factoryVars, cacheVars, cliVars>>

\* the state of everything that is not the factory
aroundFactory == <<clientVars, modelVars, formatVars, cacheVars, cliVars>>

\* the state of everything that is not the export script
aroundCache == <<clientVars, modelVars, formatVars, factoryVars, cliVars>>

\* the state of everything that is not the export command
aroundCli == <<clientVars, modelVars, formatVars, factoryVars, cacheVars>>

vars == <<clientVars, otherVars>>

batchVars == <<conversation_ids, batch_size, i, batch, payload, attempt,
               all_conversations>>

\* the records a search request with this id filter gets from the API
SearchResult(filter) ==
  LET hit == SelectSeq(filter, LAMBDA id : id \in held)
  IN  [k \in 1..Len(hit) |-> Record(hit[k])]

\* the client right after construction, against some remote API
ClientInit ==
  /\ held \in SUBSET Ids
  /\ pc = "idle"
  /\ op = "none"
  /\ conversation_ids = <<>>
  /\ batch_size = 1
  /\ i = 0
  /\ batch = <<>>
  /\ payload = <<>>
  /\ attempt = 0
  /\ all_conversations = <<>>
  /\ conversation_id = 1
  /\ result = None
  /\ error = NoError
  /\ requests = <<>>
  /\ response = NoResponse
  /\ sleeps = <<>>
  /\ clean = TRUE
  /\ singles = [id \in Ids |-> None]

\* the client is between two calls
Ready == pc = "idle"

\* the call is over: it returned or it raised
Over == pc \in {"returned", "raised"}

(***************************************************************************)
(* IntercomClient._handle_response: the exception of a failed response.    *)
(***************************************************************************)
\* the statuses of a failed response other than 429
FailureStatuses == {401, 404, 500}

AuthenticationError == [cls |-> "AuthenticationError", msg |-> "Invalid API token", retry_after |-> None]

RateLimitError(retry_after) ==
  [cls |-> "RateLimitError", msg |-> "Rate limit exceeded", retry_after |-> retry_after]

IntercomAPIError(msg) == [cls |-> "IntercomAPIError", msg |-> msg, retry_after |-> None]

\* retry_after of the RateLimitError: int(Retry-After) when the header is
\* there and parses, else None
RetryAfterOf(header) == IF header = None THEN None ELSE ParseInt(The(header))

\* what _handle_response raises for a response that is not ok
HandleResponse(status, header) ==
  IF status = 401 THEN AuthenticationError
  ELSE IF status = 429 THEN RateLimitError(RetryAfterOf(header))
  ELSE IntercomAPIError("API request failed: " \o Str(status))

(***************************************************************************)
(* IntercomClient.get_conversations                                        *)
(***************************************************************************)
\* a ceiling of one attempt more
max_attempts_four == 3 + 1

max_attempts == 3

\* wait_time = e.retry_after or (2 ** attempt)
WaitTime(retry_after, att) ==
  IF retry_after # None /\ The(retry_after) # 0 THEN The(retry_after) ELSE Pow2(att)

\* halving that rounds up
HalfBatch_ceil(b) == IF Len(b) > 1 THEN Slice(b, 0, (Len(b) + 1) \div 2) ELSE b

\* the working batch after a rate-limit response that is retried
HalfBatch(b) == IF Len(b) > 1 THEN Slice(b, 0, Len(b) \div 2) ELSE b

\* a payload rebuilt from the reduced batch
RetryPayload_reduced(old_payload, b) == b

\* the id filter of the next request after the working batch became b: the
\* payload is built once per slice, before the attempt loop, from the list
\* that batch named then; batch = batch[:half_batch] makes a new list
RetryPayload(old_payload, b) == old_payload

\* no not-found check
NotFound_never(convs, b) == FALSE

\* the batch is given up as not found: no record, and one id in the batch
NotFound(convs, b) == convs = <<>> /\ Len(b) = 1

NotFoundError(b) == IntercomAPIError("Conversation " \o Str(b[1]) \o " not found")

\* a request as the history keeps it; ok says that its response was a 200
Request(method, ids, status) ==
  [method |-> method, ids |-> ids, slice |-> i, attempt |-> attempt,
   ok |-> (status = 200)]

Response(status, convs, header) == [status |-> status, convs |-> convs, header |-> header]

Log(method, ids, status, convs, header) ==
  /\ requests' = Append(requests, Request(method, ids, status))
  /\ response' = Response(status, convs, header)

Raise(e) ==
  /\ pc' = "raised"
  /\ error' = e
  /\ result' = None

Return(v) ==
  /\ pc' = "returned"
  /\ result' = Some(v)
  /\ error' = NoError

\* a caller starts get_conversations(ids, b): the code up to the first request
Call_get_conversations(ids, b) ==
  /\ Ready
  /\ op' = "get_conversations"
  /\ conversation_ids' = ids
  /\ batch_size' = b
  /\ i' = 0
  /\ batch' = Slice(ids, 0, b)
  /\ payload' = batch'
  /\ attempt' = 0
  /\ all_conversations' = <<>>
  /\ conversation_id' = 1
  /\ requests' = <<>>
  /\ response' = NoResponse
  /\ sleeps' = <<>>
  /\ clean' = TRUE
  /\ IF Len(ids) = 0
       THEN Return(<<>>)
       ELSE /\ pc' = "post"
            /\ result' = None
            /\ error' = NoError
  /\ UNCHANGED <<held, singles>>
  /\ UNCHANGED otherVars

\* the records of the batch replace the accumulated ones
Extend_overwrite(all, convs) == convs

\* all_conversations.extend(convs)
Extend(all, convs) == all \o convs

\* a step that is one too long
NextStart_skip(start, size) == start + size + 1

\* the start of the slice after the one at start: range(0, len(ids), batch_size)
NextStart(start, size) == start + size

\* an except clause that takes every API error
Retryable_any(e) == TRUE

\* except RateLimitError: the only exception the attempt loop handles
Retryable(e) == e.cls = "RateLimitError"

\* the request of the current attempt gets a 200 response
BatchSuccess ==
  /\ pc = "post"
  /\ LET convs == SearchResult(payload)
         next == NextStart(i, batch_size)
     IN  /\ Log("POST", payload, 200, convs, None)
         /\ IF NotFound(convs, batch)
              THEN /\ Raise(NotFoundError(batch))
                   /\ UNCHANGED batchVars
                   /\ UNCHANGED sleeps
              ELSE /\ all_conversations' = Extend(all_conversations, convs)
                   /\ IF next < Len(conversation_ids)
                        THEN /\ i' = next
                             /\ batch' = Slice(conversation_ids, next, next + batch_size)
                             /\ payload' = batch'
                             /\ attempt' = 0
                             /\ sleeps' = <<>>
                             /\ UNCHANGED <<pc, result, error>>
                        ELSE /\ Return(all_conversations')
                             /\ UNCHANGED <<i, batch, payload, attempt, sleeps>>
                   /\ UNCHANGED <<conversation_ids, batch_size>>
  /\ UNCHANGED <<held, op, conversation_id, clean, singles>>
  /\ UNCHANGED otherVars

\* the request of the current attempt gets a failure response: a rate-limit
\* error before the last attempt is slept on and retried with the reduced
\* batch, every other exception leaves get_conversations
BatchFailure(status, header) ==
  /\ pc = "post"
  /\ Log("POST", payload, status, <<>>, header)
  /\ clean' = FALSE
  /\ LET e == HandleResponse(status, header)
     IN  IF Retryable(e) /\ attempt < max_attempts - 1
           THEN /\ sleeps' = Append(sleeps, [after |-> Len(requests'),
                                              secs |-> WaitTime(e.retry_after, attempt)])
                /\ batch' = HalfBatch(batch)
                /\ payload' = RetryPayload(payload, batch')
                /\ attempt' = attempt + 1
                /\ UNCHANGED <<pc, result, error>>
           ELSE /\ Raise(e)
                /\ UNCHANGED <<sleeps, batch, payload, attempt>>
  /\ UNCHANGED <<held, op, conversation_ids, batch_size, i, all_conversations,
                 conversation_id, singles>>
  /\ UNCHANGED otherVars

(***************************************************************************)
(* IntercomClient.get_conversation                                         *)
(***************************************************************************)
\* the 200 bodies the by-id endpoint can send
GetBodies == {Record(id) : id \in held} \cup {NoConversation}

\* data and data.get("id") and str(data.get("id")) == str(conversation_id)
Matches(data, id) == data # None /\ The(data).id # "" /\ The(data).id = Str(id)

\* a not-found message without the id
FallbackNotFoundError_anonymous(id) ==
  IntercomAPIError("Conversation not found via fallback")

FallbackNotFoundError(id) ==
  IntercomAPIError("Conversation " \o Str(id) \o " not found via fallback")

Call_get_conversation(id) ==
  /\ Ready
  /\ op' = "get_conversation"
  /\ conversation_id' = id
  /\ pc' = "get"
  /\ result' = None
  /\ error' = NoError
  /\ conversation_ids' = <<>>
  /\ batch_size' = 1
  /\ i' = 0
  /\ batch' = <<>>
  /\ payload' = <<>>
  /\ attempt' = 0
  /\ all_conversations' = <<>>
  /\ requests' = <<>>
  /\ response' = NoResponse
  /\ sleeps' = <<>>
  /\ clean' = TRUE
  /\ UNCHANGED <<held, singles>>
  /\ UNCHANGED otherVars

\* what follows the GET: return the data when it is the conversation asked
\* for, else go on to the fallback request
AfterGet(data) ==
  IF Matches(data, conversation_id)
    THEN Return(The(data))
    ELSE /\ pc' = "fallback"
         /\ UNCHANGED <<result, error>>

\* the GET gets a 200 response
GetSuccess(body) ==
  /\ pc = "get"
  /\ Log("GET", <<conversation_id>>, 200, <<body>>, None)
  /\ clean' = (clean /\ body = Record(conversation_id))
  /\ AfterGet(Some(body))
  /\ UNCHANGED <<held, op, conversation_id, singles>>
  /\ UNCHANGED batchVars
  /\ UNCHANGED sleeps
  /\ UNCHANGED otherVars

\* the GET gets a failure response: except IntercomAPIError: data = None
GetFailed(status, header) ==
  /\ pc = "get"
  /\ Log("GET", <<conversation_id>>, status, <<>>, header)
  /\ clean' = FALSE
  /\ AfterGet(None)
  /\ UNCHANGED <<held, op, conversation_id, singles>>
  /\ UNCHANGED batchVars
  /\ UNCHANGED sleeps
  /\ UNCHANGED otherVars

\* the fallback POST gets a 200 response
FallbackSuccess ==
  /\ pc = "fallback"
  /\ LET convs == SearchResult(<<conversation_id>>)
     IN  /\ Log("POST", <<conversation_id>>, 200, convs, None)
         /\ IF convs # <<>>
              THEN Return(convs[1])
              ELSE Raise(FallbackNotFoundError(conversation_id))
  /\ UNCHANGED <<held, op, conversation_id, sleeps, clean, singles>>
  /\ UNCHANGED batchVars
  /\ UNCHANGED otherVars

\* the lists of records that an API which chooses its answer sends for a search
SearchAnswers ==
  UNION {[1..n -> {Record(id) : id \in held}] : n \in 0..MaxAnswer}

\* the fallback POST gets a 200 response whose conversations the API chose:
\* the code returns convs[0] as it is
FallbackAnswered(convs) ==
  /\ pc = "fallback"
  /\ Log("POST", <<conversation_id>>, 200, convs, None)
  /\ IF convs # <<>>
       THEN Return(convs[1])
       ELSE Raise(FallbackNotFoundError(conversation_id))
  /\ UNCHANGED <<held, op, conversation_id, sleeps, clean, singles>>
  /\ UNCHANGED batchVars
  /\ UNCHANGED otherVars

\* the fallback POST gets a failure response
FallbackFailed(status, header) ==
  /\ pc = "fallback"
  /\ Log("POST", <<conversation_id>>, status, <<>>, header)
  /\ clean' = FALSE
  /\ Raise(HandleResponse(status, header))
  /\ UNCHANGED <<held, op, conversation_id, sleeps, singles>>
  /\ UNCHANGED batchVars
  /\ UNCHANGED otherVars

\* the frame of the call is gone; the caller remembers the records in kept
EndCall(kept) ==
  /\ pc' = "idle"
  /\ op' = "none"
  /\ conversation_ids' = <<>>
  /\ batch_size' = 1
  /\ i' = 0
  /\ batch' = <<>>
  /\ payload' = <<>>
  /\ attempt' = 0
  /\ all_conversations' = <<>>
  /\ conversation_id' = 1
  /\ result' = None
  /\ error' = NoError
  /\ requests' = <<>>
  /\ response' = NoResponse
  /\ sleeps' = <<>>
  /\ clean' = TRUE
  /\ singles' = kept
  /\ UNCHANGED held
  /\ UNCHANGED otherVars

\* the caller takes the outcome of the call
Finish ==
  /\ Over
  /\ EndCall(singles)

\* the caller takes the record that get_conversation returned when every
\* response of the call was a plain success, and remembers it under the id
FinishNoting ==
  /\ pc = "returned"
  /\ op = "get_conversation"
  /\ clean
  /\ EndCall([singles EXCEPT ![conversation_id] = result])

(***************************************************************************)
(* models/conversation.py: Python values of a raw record.                  *)
(***************************************************************************)
\* a dict is a record of the keys it has; the dict with no key
EmptyDict == [k \in {} |-> 0]

\* {**d, key: val}
Override(d, key, val) ==
  [k \in DOMAIN d \cup {key} |-> IF k = key THEN val ELSE d[k]]

\* {k: v for k, v in d.items() if k not in keys}
Without(d, keys) == [k \in DOMAIN d \ keys |-> d[k]]

\* values whose type the code asks for: a str, a dict, a list
PyStr(s) == [t |-> "str", s |-> s]
PyDict(d) == [t |-> "dict", d |-> d]
PyList(items) == [t |-> "list", items |-> items]

(***************************************************************************)
(* models/conversation.py: timestamps.                                     *)
(***************************************************************************)
\* timedelta(hours=2)
ShiftHours == 2

\* the date that is days days after 1970-01-01
CivilFromDays(days) ==
  LET z == days + 719468
      era == z \div 146097
      doe == z - era * 146097
      yoe == (doe - doe \div 1460 + doe \div 36524 - doe \div 146096) \div 365
      doy == doe - (365 * yoe + yoe \div 4 - yoe \div 100)
      mp == (5 * doy + 2) \div 153
      d == doy - (153 * mp + 2) \div 5 + 1
      m == IF mp < 10 THEN mp + 3 ELSE mp - 9
  IN  [year |-> yoe + era * 400 + (IF m <= 2 THEN 1 ELSE 0), month |-> m, day |-> d]

\* the number of days from 1970-01-01 to the date
DaysFromCivil(date) ==
  LET y == date.year - (IF date.month <= 2 THEN 1 ELSE 0)
      era == y \div 400
      yoe == y - era * 400
      mp == IF date.month > 2 THEN date.month - 3 ELSE date.month + 9
      doy == (153 * mp + 2) \div 5 + date.day - 1
      doe == yoe * 365 + yoe \div 4 - yoe \div 100 + doy
  IN  era * 146097 + doe - 719468

\* the naive datetime of the second-of-day secs of the day days
DateTime(days, secs) ==
  LET date == CivilFromDays(days)
  IN  [year |-> date.year, month |-> date.month, day |-> date.day,
       hour |-> secs \div 3600, minute |-> (secs % 3600) \div 60, second |-> secs % 60]

SecondOfDay(dt) == dt.hour * 3600 + dt.minute * 60 + dt.second

\* datetime.utcfromtimestamp(ts) of a non-negative number of seconds
UtcFromTimestamp(ts) == DateTime(ts \div 86400, ts % 86400)

\* an addition that stays on the day of dt
PlusHours_sameday(dt, h) ==
  DateTime(DaysFromCivil(dt), (SecondOfDay(dt) + h * 3600) % 86400)

\* dt + timedelta(hours=h)
PlusHours(dt, h) ==
  LET secs == SecondOfDay(dt) + h * 3600
  IN  DateTime(DaysFromCivil(dt) + secs \div 86400, secs % 86400)

\* a shift of no hour
FromTimestamp_utc(ts) == UtcFromTimestamp(ts)

\* datetime.utcfromtimestamp(ts) + timedelta(hours=2)
FromTimestamp(ts) == PlusHours(UtcFromTimestamp(ts), ShiftHours)

\* a < b of two naive datetimes
DtLess(a, b) ==
  LET x == <<a.year, a.month, a.day, a.hour, a.minute, a.second>>
      y == <<b.year, b.month, b.day, b.hour, b.minute, b.second>>
  IN  \E k \in 1..6 : x[k] < y[k] /\ \A j \in 1..(k - 1) : x[j] = y[j]

Pad2(n) == IF n < 10 THEN "0" \o Str(n) ELSE Str(n)

DateText(dt) == Str(dt.year) \o "-" \o Pad2(dt.month) \o "-" \o Pad2(dt.day)

TimeText(dt) == Pad2(dt.hour) \o ":" \o Pad2(dt.minute) \o ":" \o Pad2(dt.second)

\* dt.isoformat() of a datetime of whole seconds
IsoFormat(dt) == DateText(dt) \o "T" \o TimeText(dt)

\* dt.strftime('%Y-%m-%d %H:%M:%S')
StrfTime(dt) == DateText(dt) \o " " \o TimeText(dt)

(***************************************************************************)
(* Message.from_api_data                                                   *)
(***************************************************************************)
\* the KeyError that Message.from_api_data raises on data, if any: the
\* keys are read in the order of the constructor arguments
MessageExc(data) ==
  IF "id" \notin DOMAIN data THEN Some("KeyError: 'id'")
  ELSE IF "author" \notin DOMAIN data THEN Some("KeyError: 'author'")
  ELSE IF "id" \notin DOMAIN data.author THEN Some("KeyError: 'id'")
  ELSE IF "name" \notin DOMAIN data.author THEN Some("KeyError: 'name'")
  ELSE IF "type" \notin DOMAIN data.author THEN Some("KeyError: 'type'")
  ELSE IF "created_at" \notin DOMAIN data THEN Some("KeyError: 'created_at'")
  ELSE IF "part_type" \notin DOMAIN data THEN Some("KeyError: 'part_type'")
  ELSE None

\* the Message that Message.from_api_data makes of data
MessageFromApiData(data) ==
  [id |-> data.id,
   body |-> IF "body" \in DOMAIN data THEN data.body ELSE "",
   author |-> [id |-> data.author.id,
               name |-> data.author.name,
               type |-> data.author.type,
               email |-> IF "email" \in DOMAIN data.author
                           THEN Some(data.author.email) ELSE None],
   created_at |-> FromTimestamp(data.created_at),
   type |-> data.part_type,
   metadata |-> Without(data, {"id", "body", "author", "created_at", "part_type"})]

(***************************************************************************)
(* Conversation.from_api_data                                              *)
(***************************************************************************)
\* isinstance(part, dict) and part.get('body')
HasBody(part) == part.t = "dict" /\ "body" \in DOMAIN part.d /\ part.d.body # ""

\* a loop body without the try
PartExc_uncaught(part) == IF HasBody(part) THEN MessageExc(part.d) ELSE None

\* the exception that leaves the loop body for this part: except Exception
\* takes them all
PartExc(part) == None

\* the messages that the loop body appends for this part
PartMessages(part) ==
  IF HasBody(part) /\ MessageExc(part.d) = None
    THEN <<MessageFromApiData(part.d)>> ELSE <<>>

\* data['conversation_parts'].get('conversation_parts', [])
PartsOf(data) ==
  IF "conversation_parts" \in DOMAIN data
       /\ "conversation_parts" \in DOMAIN data.conversation_parts
    THEN data.conversation_parts.conversation_parts
    ELSE <<>>

\* {**data['conversation_message'], 'part_type': 'comment'}
InitialMessageData(data) == Override(data.conversation_message, "part_type", "comment")

RECURSIVE AppendParts(_, _)
\* messages after the loop over parts
AppendParts(messages, parts) ==
  IF parts = <<>> THEN messages
  ELSE AppendParts(messages \o PartMessages(Head(parts)), Tail(parts))

\* messages without the sort
SortMessages_none(messages) == messages

RECURSIVE SortMessages(_)
\* messages.sort(key=lambda m: m.created_at): stable, ascending
SortMessages(messages) ==
  IF messages = <<>> THEN <<>>
  ELSE LET m == messages[Len(messages)]
           sorted == SortMessages(SubSeq(messages, 1, Len(messages) - 1))
           n == Cardinality({k \in DOMAIN sorted :
                               ~DtLess(m.created_at, sorted[k].created_at)})
       IN  SubSeq(sorted, 1, n) \o <<m>> \o SubSeq(sorted, n + 1, Len(sorted))

\* the messages of the Conversation
MessagesOf(data) ==
  SortMessages(
    AppendParts(IF "conversation_message" \in DOMAIN data
                  THEN <<MessageFromApiData(InitialMessageData(data))>>
                  ELSE <<>>,
                PartsOf(data)))

\* tag.get('name', tag) if isinstance(tag, dict) else tag
TagName(tag) ==
  IF tag.t = "dict"
    THEN IF "name" \in DOMAIN tag.d THEN PyStr(tag.d.name) ELSE tag
    ELSE tag

\* data.get('tags') if isinstance(data.get('tags'), list)
\* else data.get('tags', {}).get('tags', [])
TagList(data) ==
  IF "tags" \notin DOMAIN data THEN <<>>
  ELSE IF data.tags.t = "list" THEN data.tags.items
  ELSE IF "tags" \in DOMAIN data.tags.d THEN data.tags.d.tags
  ELSE <<>>

\* a reading of tags that only knows the flat list
TagsOf_flat(data) ==
  IF "tags" \in DOMAIN data /\ data.tags.t = "list"
    THEN [k \in DOMAIN data.tags.items |-> TagName(data.tags.items[k])]
    ELSE <<>>

TagsOf(data) == [k \in DOMAIN TagList(data) |-> TagName(TagList(data)[k])]

RECURSIVE FirstPartExc(_)
FirstPartExc(parts) ==
  IF parts = <<>> THEN None
  ELSE IF PartExc(Head(parts)) # None THEN PartExc(Head(parts))
  ELSE FirstPartExc(Tail(parts))

\* the exception that Conversation.from_api_data raises on data, if any
ConversationExc(data) ==
  IF "conversation_message" \in DOMAIN data /\ MessageExc(InitialMessageData(data)) # None
    THEN MessageExc(InitialMessageData(data))
  ELSE IF FirstPartExc(PartsOf(data)) # None THEN FirstPartExc(PartsOf(data))
  ELSE IF "id" \notin DOMAIN data THEN Some("KeyError: 'id'")
  ELSE IF "created_at" \notin DOMAIN data THEN Some("KeyError: 'created_at'")
  ELSE IF "updated_at" \notin DOMAIN data THEN Some("KeyError: 'updated_at'")
  ELSE None

\* the Conversation that Conversation.from_api_data makes of data
ConversationFromApiData(data) ==
  [id |-> data.id,
   created_at |-> FromTimestamp(data.created_at),
   updated_at |-> FromTimestamp(data.updated_at),
   title |-> IF "title" \in DOMAIN data THEN Some(data.title) ELSE None,
   state |-> IF "state" \in DOMAIN data THEN data.state ELSE "open",
   messages |-> MessagesOf(data),
   custom_attributes |-> IF "custom_attributes" \in DOMAIN data
                           THEN data.custom_attributes ELSE EmptyDict,
   tags |-> TagsOf(data),
   source |-> IF "source" \in DOMAIN data THEN data.source ELSE EmptyDict,
   metadata |-> Without(data, {"id", "created_at", "updated_at", "title", "state",
                               "conversation_parts", "custom_attributes", "tags",
                               "source", "conversation_message"})]

(***************************************************************************)
(* MarkdownFormatter.format_conversation and Conversation.to_dict          *)
(***************************************************************************)
RECURSIVE Join(_, _)
\* sep.join(strings)
Join(strings, sep) ==
  IF strings = <<>> THEN ""
  ELSE IF Len(strings) = 1 THEN strings[1]
  ELSE strings[1] \o sep \o Join(Tail(strings), sep)

\* body.rstrip(), of the bodies that RawRecords has
Rstrip(body) == IF body = "Hello\n" THEN "Hello" ELSE body

\* sorted(keys), of the keys that a context of RawRecords has
SortedKeys == <<"State", "Tags", "k\"1", "plan", "seats">>

\* {'State': state, 'Tags': ', '.join(tags) if tags else None, **custom_attributes}
ContextOf(c) ==
  LET base == [State |-> Some(c.state),
               Tags |-> IF c.tags # <<>>
                          THEN Some(Join([k \in DOMAIN c.tags |-> c.tags[k].s], ", "))
                          ELSE None]
  IN  [k \in DOMAIN base \cup DOMAIN c.custom_attributes |->
         IF k \in DOMAIN c.custom_attributes
           THEN Some(c.custom_attributes[k]) ELSE base[k]]

\* MarkdownFormatter._format_metadata, of values that are strings or None
FormatMetadata(metadata) ==
  LET keys == SelectSeq(SortedKeys, LAMBDA k : k \in DOMAIN metadata /\ metadata[k] # None)
  IN  [n \in DOMAIN keys |-> "- **" \o keys[n] \o ":** " \o The(metadata[keys[n]])]

\* the lines of one message
MessageLines(m) ==
  <<"**" \o StrfTime(m.created_at) \o " - " \o m.author.name
         \o " (" \o m.author.type \o "):**">>
    \o (IF m.body # "" THEN <<Rstrip(m.body) \o "\n">> ELSE <<>>)

RECURSIVE Flatten(_)
Flatten(seqs) == IF seqs = <<>> THEN <<>> ELSE Head(seqs) \o Flatten(Tail(seqs))

\* ', '.join(conversation.tags) of a tag that is not a str
MarkdownExc(c) ==
  IF \E k \in DOMAIN c.tags : c.tags[k].t # "str"
    THEN Some("TypeError: sequence item: expected str instance")
    ELSE None

\* the list lines of MarkdownFormatter.format_conversation
MarkdownLines(c) ==
  <<"## Conversation " \o c.id \o "\n",
    "**Created:** " \o StrfTime(c.created_at) \o "\n">>
    \o (IF \E k \in DOMAIN ContextOf(c) : ContextOf(c)[k] # None
          THEN <<"### Context\n">> \o FormatMetadata(ContextOf(c)) \o <<"">>
          ELSE <<>>)
    \o (IF c.messages # <<>>
          THEN <<"### Conversation\n">>
                 \o Flatten([k \in DOMAIN c.messages |-> MessageLines(c.messages[k])])
          ELSE <<>>)
    \o <<"---", "">>

\* what MarkdownFormatter.format_conversation gives: the text, or an exception
MarkdownOf(c) ==
  IF MarkdownExc(c) # None THEN [exc |-> The(MarkdownExc(c))]
  ELSE [lines |-> MarkdownLines(c), text |-> Join(MarkdownLines(c), "\n")]

\* the dict of one message in Conversation.to_dict
MessageToDict(m) ==
  [id |-> m.id,
   body |-> m.body,
   author |-> [id |-> m.author.id, name |-> m.author.name,
               type |-> m.author.type, email |-> m.author.email],
   created_at |-> IsoFormat(m.created_at),
   type |-> m.type,
   metadata |-> m.metadata]

\* Conversation.to_dict
ToDict(c) ==
  [id |-> c.id,
   created_at |-> IsoFormat(c.created_at),
   updated_at |-> IsoFormat(c.updated_at),
   title |-> c.title,
   state |-> c.state,
   messages |-> [k \in DOMAIN c.messages |-> MessageToDict(c.messages[k])],
   custom_attributes |-> c.custom_attributes,
   tags |-> c.tags,
   source |-> c.source,
   metadata |-> c.metadata]

(***************************************************************************)
(* json.dumps(obj, indent=n, ensure_ascii=False) and json.loads(text), of  *)
(* objects made of str, None, list and dict.                               *)
(***************************************************************************)
JStr(s) == [t |-> "str", s |-> s]
JNull == [t |-> "null"]
JArr(items) == [t |-> "list", items |-> items]
JObj(d) == [t |-> "dict", d |-> d]

\* the character of text at position p, "" after the end
Char(text, p) == IF p <= Len(text) THEN SubSeq(text, p, p) ELSE ""

\* an encoder that leaves the backslash alone
EscapeChar_quoteonly(c) ==
  CASE c = "\"" -> "\\\""
    [] c = "\n" -> "\\n"
    [] c = "\r" -> "\\r"
    [] c = "\t" -> "\\t"
    [] OTHER -> c

\* json.encoder.ESCAPE_DCT, of the characters a TLA+ string can hold
EscapeChar(c) ==
  CASE c = "\"" -> "\\\""
    [] c = "\\" -> "\\\\"
    [] c = "\n" -> "\\n"
    [] c = "\r" -> "\\r"
    [] c = "\t" -> "\\t"
    [] OTHER -> c

RECURSIVE EscapeFrom(_, _)
EscapeFrom(s, p) ==
  IF p > Len(s) THEN "" ELSE EscapeChar(Char(s, p)) \o EscapeFrom(s, p + 1)

\* json.encoder.py_encode_basestring
EncodeString(s) == "\"" \o EscapeFrom(s, 1) \o "\""

RECURSIVE Spaces(_)
Spaces(n) == IF n = 0 THEN "" ELSE " " \o Spaces(n - 1)

\* the keys of the dicts of the model, in the order they are inserted
KeyOrder ==
  <<"id", "body", "author", "name", "created_at", "updated_at", "title", "state",
    "messages", "type", "email", "custom_attributes", "tags", "source", "metadata",
    "plan", "seats", "k\"1", "a\\b">>

Keys(d) == SelectSeq(KeyOrder, LAMBDA k : k \in DOMAIN d)

RECURSIVE Dumps(_, _, _)
\* the text of obj at a nesting of level, with indent spaces for each level
Dumps(obj, indent, level) ==
  LET inner == "\n" \o Spaces(indent * (level + 1))
      outer == "\n" \o Spaces(indent * level)
  IN  CASE obj.t = "str" -> EncodeString(obj.s)
        [] obj.t = "null" -> "null"
        [] obj.t = "list" ->
             IF obj.items = <<>> THEN "[]"
             ELSE "[" \o inner
                    \o Join([k \in DOMAIN obj.items |-> Dumps(obj.items[k], indent, level + 1)],
                            "," \o inner)
                    \o outer \o "]"
        [] obj.t = "dict" ->
             IF DOMAIN obj.d = {} THEN "{}"
             ELSE "{" \o inner
                    \o Join([k \in DOMAIN Keys(obj.d) |->
                               EncodeString(Keys(obj.d)[k]) \o ": "
                                 \o Dumps(obj.d[Keys(obj.d)[k]], indent, level + 1)],
                            "," \o inner)
                    \o outer \o "}"

\* json.decoder.WHITESPACE
Whitespace == {" ", "\t", "\n", "\r"}

RECURSIVE SkipWhitespace(_, _)
SkipWhitespace(text, p) ==
  IF Char(text, p) \in Whitespace THEN SkipWhitespace(text, p + 1) ELSE p

\* a parse that failed, and one that made v and stopped before position p
Failed == [ok |-> FALSE]
Parsed(v, p) == [ok |-> TRUE, v |-> v, p |-> p]

\* json.decoder.BACKSLASH: the character that an escape stands for, "" for none
\* (\b, \f and \uXXXX stand for characters that no string of the model has)
Unescape(c) ==
  CASE c = "\"" -> "\""
    [] c = "\\" -> "\\"
    [] c = "/" -> "/"
    [] c = "n" -> "\n"
    [] c = "r" -> "\r"
    [] c = "t" -> "\t"
    [] OTHER -> ""

RECURSIVE ScanString(_, _, _)
\* json.decoder.py_scanstring (strict): p is after the opening quote
ScanString(text, p, chars) ==
  LET c == Char(text, p)
  IN  IF c = "" \/ c \in {"\n", "\r", "\t"} THEN Failed
      ELSE IF c = "\"" THEN Parsed(chars, p + 1)
      ELSE IF c = "\\"
        THEN IF Unescape(Char(text, p + 1)) = "" THEN Failed
             ELSE ScanString(text, p + 2, chars \o Unescape(Char(text, p + 1)))
      ELSE ScanString(text, p + 1, chars \o c)

RECURSIVE ScanValue(_, _)
RECURSIVE ScanArray(_, _, _)
RECURSIVE ScanObject(_, _, _)

\* json.scanner.py_make_scanner: the value that starts at p
ScanValue(text, p) ==
  LET c == Char(text, p)
  IN  IF c = "\"" THEN
        LET r == ScanString(text, p + 1, "")
        IN  IF r.ok THEN Parsed(JStr(r.v), r.p) ELSE Failed
      ELSE IF c = "[" THEN
        IF Char(text, SkipWhitespace(text, p + 1)) = "]"
          THEN Parsed(JArr(<<>>), SkipWhitespace(text, p + 1) + 1)
          ELSE ScanArray(text, p + 1, <<>>)
      ELSE IF c = "{" THEN
        IF Char(text, SkipWhitespace(text, p + 1)) = "}"
          THEN Parsed(JObj(EmptyDict), SkipWhitespace(text, p + 1) + 1)
          ELSE ScanObject(text, p + 1, EmptyDict)
      ELSE IF c = "n" /\ SubSeq(text, p, p + 3) = "null" THEN Parsed(JNull, p + 4)
      ELSE Failed

\* json.decoder.JSONArray: p is where the next element is due
ScanArray(text, p, items) ==
  LET r == ScanValue(text, SkipWhitespace(text, p))
      q == SkipWhitespace(text, r.p)
  IN  IF ~r.ok THEN Failed
      ELSE IF Char(text, q) = "]" THEN Parsed(JArr(Append(items, r.v)), q + 1)
      ELSE IF Char(text, q) = "," THEN ScanArray(text, q + 1, Append(items, r.v))
      ELSE Failed

\* json.decoder.JSONObject: p is where the next key is due
ScanObject(text, p, d) ==
  LET k == SkipWhitespace(text, p)
      key == ScanString(text, k + 1, "")
      colon == SkipWhitespace(text, key.p)
      r == ScanValue(text, SkipWhitespace(text, colon + 1))
      q == SkipWhitespace(text, r.p)
  IN  IF Char(text, k) # "\"" \/ ~key.ok THEN Failed
      ELSE IF Char(text, colon) # ":" \/ ~r.ok THEN Failed
      ELSE IF Char(text, q) = "}" THEN Parsed(JObj(Override(d, key.v, r.v)), q + 1)
      ELSE IF Char(text, q) = "," THEN ScanObject(text, q + 1, Override(d, key.v, r.v))
      ELSE Failed

\* json.loads(text): Some(obj), or None where Python raises JSONDecodeError
Loads(text) ==
  LET r == ScanValue(text, SkipWhitespace(text, 1))
  IN  IF r.ok /\ SkipWhitespace(text, r.p) > Len(text) THEN Some(r.v) ELSE None

\* a dict of strings as the object that json.dumps is given
StrDict(d) == JObj([k \in DOMAIN d |-> JStr(d[k])])

\* a tag of a Conversation as the object that json.dumps is given
TagObject(tag) == IF tag.t = "str" THEN JStr(tag.s) ELSE StrDict(tag.d)

\* the dict of Conversation.to_dict as the object that json.dumps is given
DictObject(d) ==
  JObj([id |-> JStr(d.id),
        created_at |-> JStr(d.created_at),
        updated_at |-> JStr(d.updated_at),
        title |-> IF d.title = None THEN JNull ELSE JStr(The(d.title)),
        state |-> JStr(d.state),
        messages |->
          JArr([k \in DOMAIN d.messages |->
                  LET m == d.messages[k]
                  IN  JObj([id |-> JStr(m.id),
                            body |-> JStr(m.body),
                            author |-> JObj([id |-> JStr(m.author.id),
                                             name |-> JStr(m.author.name),
                                             type |-> JStr(m.author.type),
                                             email |-> IF m.author.email = None THEN JNull
                                                       ELSE JStr(The(m.author.email))]),
                            created_at |-> JStr(m.created_at),
                            type |-> JStr(m.type),
                            metadata |-> StrDict(m.metadata)])]),
        custom_attributes |-> StrDict(d.custom_attributes),
        tags |-> JArr([k \in DOMAIN d.tags |-> TagObject(d.tags[k])]),
        source |-> StrDict(d.source),
        metadata |-> StrDict(d.metadata)])

(***************************************************************************)
(* The raw records that Conversation.from_api_data is given.               *)
(***************************************************************************)
\* the sequences of at most n elements of S
SeqsUpTo(S, n) == UNION {[1..m -> S] : m \in 0..n}

\* d with key: The(opt), or d itself when there is no value
WithOpt(d, key, opt) == IF opt = None THEN d ELSE Override(d, key, The(opt))

\* 2023-01-01 10:00:00, 10:05:00 and 22:00:00 UTC
PartEpochs == {1672567200, 1672567500, 1672610400}

\* and 1970-01-01 00:00:00, 2022-12-31 23:00:00, 2024-02-29 23:00:00 UTC
Epochs == PartEpochs \cup {0, 1672527600, 1709247600}

RawPart(k, ts) ==
  [id |-> "part" \o Str(k),
   body |-> "Reply " \o Str(k),
   author |-> [id |-> "admin1", name |-> "Support", type |-> "admin",
               email |-> "support@example.com"],
   created_at |-> ts,
   part_type |-> "comment"]

PartShapes ==
  {"comment", "list", "no body", "empty body", "no id", "no author",
   "no created_at", "no part_type"}

\* the k-th element of conversation_parts, in one of the shapes
ShapedPart(shape, k, ts) ==
  CASE shape = "comment" -> PyDict(RawPart(k, ts))
    [] shape = "list" -> PyList(<<>>)
    [] shape = "no body" -> PyDict(Without(RawPart(k, ts), {"body"}))
    [] shape = "empty body" -> PyDict(Override(RawPart(k, ts), "body", ""))
    [] shape = "no id" -> PyDict(Without(RawPart(k, ts), {"id"}))
    [] shape = "no author" -> PyDict(Without(RawPart(k, ts), {"author"}))
    [] shape = "no created_at" -> PyDict(Without(RawPart(k, ts), {"created_at"}))
    [] shape = "no part_type" -> PyDict(Without(RawPart(k, ts), {"part_type"}))

PartLists ==
  {[k \in DOMAIN ps |-> ShapedPart(ps[k][1], k, ps[k][2])] :
     ps \in SeqsUpTo(PartShapes \X PartEpochs, MaxParts)}

RawOpening(ts) ==
  [id |-> "msg0",
   body |-> "Hello\n",
   author |-> [id |-> "user1", name |-> "John Doe", type |-> "user"],
   created_at |-> ts]

\* conversation_message: none, a well-formed one, one without an author
Openings ==
  {None, Some(RawOpening(1672567500)), Some(Without(RawOpening(1672567500), {"author"}))}

BaseRecord ==
  [id |-> "conv1", created_at |-> 1672567200, updated_at |-> 1672567500,
   type |-> "conversation"]

\* records that differ in their parts and their opening message
PartsRecords ==
  {WithOpt(Override(BaseRecord, "conversation_parts",
                    [type |-> "conversation_part.list", conversation_parts |-> parts]),
           "conversation_message", opening) :
     parts \in PartLists, opening \in Openings}
  \cup {Override(BaseRecord, "conversation_parts", [type |-> "conversation_part.list"])}

TagNames == {"vip", "bug"}

\* a tag: a string, an object with a name, an object without one
TagItems ==
  {PyStr(n) : n \in TagNames}
    \cup {PyDict([id |-> "tag1", name |-> n]) : n \in TagNames}
    \cup {PyDict([id |-> "tag1"])}

\* records that differ in their tags
TagsRecords ==
  {BaseRecord, Override(BaseRecord, "tags", PyDict([type |-> "tag.list"]))}
    \cup {Override(BaseRecord, "tags", PyList(tags)) : tags \in SeqsUpTo(TagItems, MaxTags)}
    \cup {Override(BaseRecord, "tags", PyDict([type |-> "tag.list", tags |-> tags])) :
            tags \in SeqsUpTo(TagItems, MaxTags)}

\* records that differ in their timestamps, and records without a required key
TimeRecords ==
  {Override([BaseRecord EXCEPT !.created_at = c, !.updated_at = u],
            "conversation_message", RawOpening(m)) : c \in Epochs, u \in Epochs, m \in Epochs}
    \cup {Without(BaseRecord, {k}) : k \in {"id", "created_at", "updated_at"}}

\* records that differ in their optional fields
FieldRecords ==
  {WithOpt(WithOpt(WithOpt(WithOpt(BaseRecord, "title", title), "state", state),
                   "custom_attributes", attrs), "source", source) :
     title \in {None, Some("Billing")},
     state \in {None, Some("closed")},
     attrs \in {None, Some(EmptyDict), Some([plan |-> "pro"]),
                Some([plan |-> "pro", seats |-> "5"])},
     source \in {None, Some([type |-> "email"])}}

RawRecords == PartsRecords \cup TagsRecords \cup TimeRecords \cup FieldRecords

(***************************************************************************)
(* The steps of making and rendering one Conversation.                     *)
(***************************************************************************)
\* no record is being converted
ModelRest ==
  /\ api_data = None
  /\ conversation = None
  /\ conv_exc = None
  /\ markdown = None
  /\ as_dict = None

\* a record is about to be converted
ModelInit ==
  /\ api_data \in {Some(data) : data \in RawRecords}
  /\ conversation = None
  /\ conv_exc = None
  /\ markdown = None
  /\ as_dict = None

\* Conversation.from_api_data(data)
Call_from_api_data ==
  /\ api_data # None
  /\ conversation = None
  /\ conv_exc = None
  /\ LET data == The(api_data)
     IN  IF ConversationExc(data) # None
           THEN /\ conv_exc' = ConversationExc(data)
                /\ conversation' = None
           ELSE /\ conversation' = Some(ConversationFromApiData(data))
                /\ conv_exc' = None
  /\ UNCHANGED <<api_data, markdown, as_dict, aroundModel>>

\* MarkdownFormatter().format_conversation(conversation)
Call_format_conversation ==
  /\ conversation # None
  /\ markdown = None
  /\ markdown' = Some(MarkdownOf(The(conversation)))
  /\ UNCHANGED <<api_data, conversation, conv_exc, as_dict, aroundModel>>

\* conversation.to_dict()
Call_to_dict ==
  /\ conversation # None
  /\ as_dict = None
  /\ as_dict' = Some(ToDict(The(conversation)))
  /\ UNCHANGED <<api_data, conversation, conv_exc, markdown, aroundModel>>

(***************************************************************************)
(* formatters: BaseFormatter, JSONFormatter, CSVFormatter,                 *)
(* MarkdownFormatter.                                                      *)
(***************************************************************************)
JSONFormatter(sink, indent) == [class |-> "json", sink |-> sink, indent |-> indent]

CSVFormatter(sink, include_headers, flatten_messages, delimiter) ==
  [class |-> "csv", sink |-> sink, include_headers |-> include_headers,
   flatten_messages |-> flatten_messages, delimiter |-> delimiter]

MarkdownFormatter(sink) == [class |-> "markdown", sink |-> sink]

\* CSVFormatter.__init__: self.columns
Columns(f) ==
  IF f.flatten_messages
    THEN <<"conversation_id", "created_at", "updated_at", "state", "message_id",
           "message_type", "message_author", "message_text", "message_created_at">>
    ELSE <<"id", "created_at", "updated_at", "state", "subject", "assignee_name",
           "assignee_type", "contact_name", "contact_email", "message_count",
           "first_message_text", "last_message_text">>

\* format_header of the three classes; no column name needs a quote
FormatHeader(f) ==
  CASE f.class = "json" -> "["
    [] f.class = "csv" -> IF f.include_headers THEN Join(Columns(f), f.delimiter) ELSE ""
    [] f.class = "markdown" ->
         "# Intercom Support Conversations\n\n"
           \o "This document contains customer support conversations exported from "
           \o "Intercom, formatted for LLM analysis.\n\n"

\* format_footer of the three classes
FormatFooter(f) == IF f.class = "json" THEN "\n]" ELSE ""

\* a result: a str, None, or an exception
Text(s) == [text |-> s]
ReturnedNone == [none |-> TRUE]
Exc(e) == [exc |-> e]

Raised(r) == "exc" \in DOMAIN r

\* self.file.tell() of a sink that holds sunk and is only ever appended to
Tell(sunk) == Len(sunk)

\* JSONFormatter.format_conversation
JSONFormatConversation(f, sunk, c) ==
  LET json_str == Dumps(DictObject(ToDict(c)), f.indent, 0)
  IN  IF f.sink /\ Tell(sunk) > Len(FormatHeader(f))
        THEN Text(",\n" \o json_str)
        ELSE Text(json_str)

\* CSVFormatter.format_conversation: Author and Conversation are dataclasses
\* without a get method, a subject, an assignee or a contact
CSVFormatConversation(f, c) ==
  IF f.flatten_messages
    THEN IF c.messages # <<>>
           THEN Exc("AttributeError: 'Author' object has no attribute 'get'")
           ELSE Text("")
    ELSE Exc("AttributeError: 'Conversation' object has no attribute 'subject'")

\* format_conversation of the three classes
FormatConversation(f, sunk, c) ==
  CASE f.class = "json" -> JSONFormatConversation(f, sunk, c)
    [] f.class = "csv" -> CSVFormatConversation(f, c)
    [] f.class = "markdown" ->
         IF MarkdownExc(c) # None THEN Exc(The(MarkdownExc(c))) ELSE Text(MarkdownOf(c).text)

\* BaseFormatter.format_conversations: the text it joins, or the exception
\* of the first conversation that raises
BaseFormatConversations(f, sunk, convs) ==
  LET pieces == [k \in DOMAIN convs |-> FormatConversation(f, sunk, convs[k])]
      bad == {k \in DOMAIN convs : Raised(pieces[k])}
  IN  IF bad # {} THEN pieces[CHOOSE k \in bad : \A j \in bad : k <= j]
      ELSE Text(Join(<<FormatHeader(f)>> \o [k \in DOMAIN convs |-> pieces[k].text]
                       \o <<FormatFooter(f)>>, "\n"))

\* format_conversations of the three classes, before the write
FormatConversations(f, sunk, convs) ==
  IF f.class = "json" /\ ~f.sink
    THEN Text(Dumps(JArr([k \in DOMAIN convs |-> DictObject(ToDict(convs[k]))]),
                    f.indent, 0))
    ELSE BaseFormatConversations(f, sunk, convs)

(***************************************************************************)
(* The formatters and the Conversations they are given.                    *)
(***************************************************************************)
Formatters ==
  {JSONFormatter(sink, 2) : sink \in BOOLEAN}
    \cup {CSVFormatter(sink, headers, flatten, ",") :
            sink \in BOOLEAN, headers \in BOOLEAN, flatten \in BOOLEAN}
    \cup {MarkdownFormatter(sink) : sink \in BOOLEAN}

\* a record without messages; one with an opening message; one with three
\* messages, and with quotes and backslashes in its strings
FormatRecords ==
  {BaseRecord,
   [id |-> "conv2", created_at |-> 1672567200, updated_at |-> 1672567500,
    title |-> "Billing", tags |-> PyList(<<PyStr("vip")>>),
    custom_attributes |-> [plan |-> "pro"],
    conversation_message |-> [RawOpening(1672567200) EXCEPT !.body = "say \"hi\""]],
   [id |-> "conv3", created_at |-> 1672567200, updated_at |-> 1672610400,
    state |-> "closed", tags |-> PyList(<<PyStr("a\\b"), PyStr("bug")>>),
    custom_attributes |-> ("k\"1" :> "v\\"),
    conversation_message |-> RawOpening(1672567500),
    conversation_parts |->
      [type |-> "conversation_part.list",
       conversation_parts |->
         <<PyDict([RawPart(1, 1672610400) EXCEPT !.body = "a\\nb\tc"]),
           PyDict(RawPart(2, 1672567200))>>]]}

Canonical == {ConversationFromApiData(data) : data \in FormatRecords}

FormatRest ==
  /\ formatter = None
  /\ conversations = <<>>
  /\ file = ""
  /\ called = <<>>
  /\ returned = None
  /\ written = None
  /\ calls = 0

\* a formatter was made, on a fresh sink or on none
FormatInit ==
  /\ formatter \in {Some(f) : f \in Formatters}
  /\ conversations \in SeqsUpTo(Canonical, MaxConversations)
  /\ file = ""
  /\ called = <<>>
  /\ returned = None
  /\ written = None
  /\ calls = 0

\* formatter.format_conversations(conversations)
Call_format_conversations ==
  /\ formatter # None
  /\ calls < MaxCalls
  /\ LET f == The(formatter)
         r == FormatConversations(f, file, conversations)
     IN  IF f.sink /\ ~Raised(r)
           THEN /\ file' = file \o r.text
                /\ written' = Some(r.text)
                /\ returned' = Some(ReturnedNone)
           ELSE /\ returned' = Some(r)
                /\ written' = None
                /\ UNCHANGED file
  /\ called' = <<"format_conversations">>
  /\ calls' = calls + 1
  /\ UNCHANGED <<formatter, conversations, aroundFormat>>

\* formatter.format_conversation(conversations[k])
Call_format_one(k) ==
  /\ formatter # None
  /\ calls < MaxCalls
  /\ k \in DOMAIN conversations
  /\ returned' = Some(FormatConversation(The(formatter), file, conversations[k]))
  /\ written' = None
  /\ called' = <<"format_conversation", k>>
  /\ calls' = calls + 1
  /\ UNCHANGED <<formatter, conversations, file, aroundFormat>>

(***************************************************************************)
(* formatters/factory.py: the registry of formatter classes.               *)
(***************************************************************************)
\* str.lower() of one ASCII character
LowerChar(c) ==
  CASE c = "A" -> "a" [] c = "B" -> "b" [] c = "C" -> "c" [] c = "D" -> "d"
    [] c = "E" -> "e" [] c = "F" -> "f" [] c = "G" -> "g" [] c = "H" -> "h"
    [] c = "I" -> "i" [] c = "J" -> "j" [] c = "K" -> "k" [] c = "L" -> "l"
    [] c = "M" -> "m" [] c = "N" -> "n" [] c = "O" -> "o" [] c = "P" -> "p"
    [] c = "Q" -> "q" [] c = "R" -> "r" [] c = "S" -> "s" [] c = "T" -> "t"
    [] c = "U" -> "u" [] c = "V" -> "v" [] c = "W" -> "w" [] c = "X" -> "x"
    [] c = "Y" -> "y" [] c = "Z" -> "z" [] OTHER -> c

RECURSIVE LowerFrom(_, _)
LowerFrom(s, p) == IF p > Len(s) THEN "" ELSE LowerChar(Char(s, p)) \o LowerFrom(s, p + 1)

\* a name kept as it is given
Lower_asgiven(s) == s

\* format_name.lower()
Lower(s) == LowerFrom(s, 1)

\* the abstract methods of BaseFormatter
Contract == {"format_conversation", "format_header", "format_footer"}

\* a class: its name, whether BaseFormatter is among its bases (or is it),
\* the methods of the contract that it or a base implements, and the
\* keyword arguments that its constructor takes besides file
Class(name, subclass, implements, takes) ==
  [name |-> name, subclass |-> subclass, implements |-> implements, takes |-> takes]

BaseFormatterClass == Class("BaseFormatter", TRUE, {}, {})
MarkdownFormatterClass == Class("MarkdownFormatter", TRUE, Contract, {})
JSONFormatterClass == Class("JSONFormatter", TRUE, Contract, {"indent"})
CSVFormatterClass == Class("CSVFormatter", TRUE, Contract, {"indent", "include_headers"})

\* cls.__abstractmethods__, the empty set for a class that is no ABC
AbstractMethods(cls) == IF cls.subclass THEN Contract \ cls.implements ELSE {}

\* a check that does not look at the abstract methods
Rejected_subclassonly(cls) == ~cls.subclass \/ cls = BaseFormatterClass

\* the condition of line 67, under which register_formatter raises
Rejected(cls) ==
  \/ ~cls.subclass
  \/ cls = BaseFormatterClass
  \/ AbstractMethods(cls) # {}

\* FORMATTERS when the module is imported
BuiltIn ==
  [name \in {"markdown", "json", "csv"} |->
     CASE name = "markdown" -> MarkdownFormatterClass
       [] name = "json" -> JSONFormatterClass
       [] name = "csv" -> CSVFormatterClass]

\* formatter_class(file, **kwargs)
Construct(cls, kwargs) ==
  IF DOMAIN kwargs \subseteq cls.takes
    THEN [instance_of |-> cls.name, options |-> kwargs]
    ELSE Exc("TypeError: __init__() got an unexpected keyword argument")

\* what create_formatter(format_name, **kwargs) returns or raises
CreateFormatter(registry, format_name, kwargs) ==
  IF Lower(format_name) \notin DOMAIN registry
    THEN Exc("UnknownFormatError")
    ELSE Construct(registry[Lower(format_name)],
                   IF Lower(format_name) = "markdown"
                     THEN Without(kwargs, {"indent"}) ELSE kwargs)

\* the names and the classes that the callers of the factory use
FormatNames == {"markdown", "MARKDOWN", "Markdown", "json", "xml", "XML"}

Candidates ==
  {BaseFormatterClass, JSONFormatterClass,
   Class("NewMarkdownFormatter", TRUE, Contract, {}),
   Class("InvalidFormatter", FALSE, {}, {}),
   Class("DuckFormatter", FALSE, Contract, {})}
    \cup {Class("PartialFormatter", TRUE, Contract \ {m}, {}) : m \in Contract}
    \cup {Class("PartialFormatter", TRUE, {m}, {}) : m \in Contract}

KeywordArguments == {EmptyDict, [indent |-> 4]}

FactoryRest ==
  /\ FORMATTERS = BuiltIn
  /\ factory_called = <<>>
  /\ factory_returned = None
  /\ registrations = <<>>
  /\ factory_calls = 0

\* register_formatter(format_name, formatter_class)
Call_register_formatter(format_name, formatter_class) ==
  /\ factory_calls < MaxFactoryCalls
  /\ IF Rejected(formatter_class)
       THEN /\ factory_returned' =
                 Some(Exc("TypeError: Formatter must be a concrete subclass of BaseFormatter"))
            /\ UNCHANGED <<FORMATTERS, registrations>>
       ELSE /\ FORMATTERS' = Override(FORMATTERS, Lower(format_name), formatter_class)
            /\ registrations' = Append(registrations, <<format_name, formatter_class>>)
            /\ factory_returned' = Some(ReturnedNone)
  /\ factory_called' = <<"register_formatter", format_name, formatter_class>>
  /\ factory_calls' = factory_calls + 1
  /\ UNCHANGED aroundFactory

\* a create_formatter that takes the class out of the registry
Call_create_formatter_pop(format_name, kwargs) ==
  /\ factory_calls < MaxFactoryCalls
  /\ factory_returned' = Some(CreateFormatter(FORMATTERS, format_name, kwargs))
  /\ factory_called' = <<"create_formatter", format_name, kwargs>>
  /\ factory_calls' = factory_calls + 1
  /\ FORMATTERS' = Without(FORMATTERS, {Lower(format_name)})
  /\ UNCHANGED <<registrations, aroundFactory>>

\* create_formatter(format_name, **kwargs)
Call_create_formatter(format_name, kwargs) ==
  /\ factory_calls < MaxFactoryCalls
  /\ factory_returned' = Some(CreateFormatter(FORMATTERS, format_name, kwargs))
  /\ factory_called' = <<"create_formatter", format_name, kwargs>>
  /\ factory_calls' = factory_calls + 1
  /\ UNCHANGED <<FORMATTERS, registrations, aroundFactory>>

RECURSIVE KeysFrom(_, _)
\* the keys of a dict that had these keys and was then assigned the names of
\* these registrations: a new key goes last, an old key keeps its place
KeysFrom(keys, regs) ==
  IF regs = <<>> THEN keys
  ELSE LET key == Lower(regs[1][1])
       IN  KeysFrom(IF \E k \in DOMAIN keys : keys[k] = key
                      THEN keys ELSE Append(keys, key),
                    Tail(regs))

\* list(FORMATTERS.keys())
GetAvailableFormats == KeysFrom(<<"markdown", "json", "csv">>, registrations)

\* get_available_formats()
Call_get_available_formats ==
  /\ factory_calls < MaxFactoryCalls
  /\ factory_returned' = Some([keys |-> GetAvailableFormats])
  /\ factory_called' = <<"get_available_formats">>
  /\ factory_calls' = factory_calls + 1
  /\ UNCHANGED <<FORMATTERS, registrations, aroundFactory>>

(***************************************************************************)
(* export_conversations.py: main and process_single_conversation, with the *)
(* cache file raw_conversations.json. A raw record has the fields of       *)
(* Record; the fields that format_conversation reads are not among them,   *)
(* so whether it raises is an input of the step that calls it.             *)
(***************************************************************************)
\* the text that json.dump(raw_data, raw_file, indent=2) writes
CacheText(raw_data) == Dumps(JArr(raw_data), 2, 0)

\* a cache file that holds the records of these ids
CacheOf(ids) == CacheText([k \in DOMAIN ids |-> StrDict(Record(ids[k]))])

\* the cache files a run can find: none, one that an earlier run wrote
\* (empty, or with one record), one cut short, and one that is no array
CacheFiles ==
  {None, Some("["), Some("{}"), Some(CacheOf(<<>>))}
    \cup {Some(CacheOf(<<id>>)) : id \in Ids}

\* str(conversation.get('id')) of a dict of the cache
StrOfId(obj) ==
  IF "id" \in DOMAIN obj.d /\ obj.d.id.t = "str" THEN obj.d.id.s ELSE "None"

\* a search that finds nothing
FindFrom_blind(items, k, id) == "missing"

RECURSIVE FindFrom(_, _, _)
\* lines 21-25: the loop over the cache from item k on: found, missing, or
\* crash where conversation.get raises AttributeError
FindFrom(items, k, id) ==
  IF k > Len(items) THEN "missing"
  ELSE IF items[k].t # "dict" THEN "crash"
  ELSE IF StrOfId(items[k]) = Str(id) THEN "found"
  ELSE FindFrom(items, k + 1, id)

\* lines 15-25: the search of the cache file for an id; exit where json.load
\* raises, crash where the loop raises
Lookup(text, id) ==
  LET loaded == Loads(text)
  IN  IF loaded = None THEN "exit"
      ELSE CASE The(loaded).t = "list" -> FindFrom(The(loaded).items, 1, id)
             [] The(loaded).t = "dict" ->
                  IF DOMAIN The(loaded).d = {} THEN "missing" ELSE "crash"
             [] The(loaded).t = "str" ->
                  IF The(loaded).s = "" THEN "missing" ELSE "crash"
             [] OTHER -> "crash"

\* a list that starts empty whatever the file holds
RawData_fresh(text) == <<>>

\* lines 58-67: the list that the record is appended to
RawData(text) ==
  LET loaded == Loads(text)
  IN  IF loaded # None /\ The(loaded).t = "list" THEN The(loaded).items ELSE <<>>

\* no script is running
CacheRest ==
  /\ raw_conversations_json = None
  /\ conversations_md = <<>>
  /\ todo = <<>>
  /\ done = <<>>
  /\ convo_id = 1
  /\ stage = "exit0"
  /\ fetched = <<>>

\* main has read its ids and enters its loop
CacheInit ==
  /\ raw_conversations_json \in CacheFiles
  /\ conversations_md = <<>>
  /\ todo \in RunLists
  /\ done = <<>>
  /\ convo_id = 1
  /\ stage = "loop"
  /\ fetched = <<>>

\* the loop of main calls process_single_conversation on its next id: the
\* code up to the call of get_conversation, or all of it when there is none
Call_process_single_conversation(has_token, formats) ==
  /\ stage = "loop"
  /\ todo # <<>>
  /\ Ready
  /\ convo_id' = Head(todo)
  /\ todo' = Tail(todo)
  /\ done' = Append(done, Head(todo))
  /\ LET cache == IF raw_conversations_json = None
                    THEN Some("[]") ELSE raw_conversations_json
         found == Lookup(The(cache), Head(todo))
     IN  /\ raw_conversations_json' = cache
         /\ stage' = CASE found = "found" -> IF formats THEN "loop" ELSE "exit1"
                        [] found = "missing" -> IF has_token THEN "fetch" ELSE "exit1"
                        [] OTHER -> "exit1"
  /\ UNCHANGED <<conversations_md, fetched>>
  /\ UNCHANGED aroundCache

\* line 55: client.get_conversation(convo_id)
Fetch ==
  /\ stage = "fetch"
  /\ Call_get_conversation(convo_id)

\* lines 56-86: get_conversation has returned
Stored(formats) ==
  /\ stage = "fetch"
  /\ pc = "returned"
  /\ IF DOMAIN The(result) = {}
       THEN /\ stage' = "exit1"
            /\ UNCHANGED <<raw_conversations_json, conversations_md, fetched>>
       ELSE /\ raw_conversations_json' =
                 Some(CacheText(Append(RawData(The(raw_conversations_json)),
                                       StrDict(The(result)))))
            /\ fetched' = Append(fetched, The(result))
            /\ IF formats
                 THEN /\ conversations_md' = Append(conversations_md, The(result))
                      /\ stage' = "loop"
                 ELSE /\ stage' = "exit1"
                      /\ UNCHANGED conversations_md
  /\ UNCHANGED <<todo, done, convo_id>>
  /\ UNCHANGED aroundCache

\* get_conversation has raised: nothing catches the exception
FetchRaised ==
  /\ stage = "fetch"
  /\ pc = "raised"
  /\ stage' = "exit1"
  /\ UNCHANGED <<raw_conversations_json, conversations_md, todo, done, convo_id,
                 fetched>>
  /\ UNCHANGED aroundCache

\* the loop of main is through
Return_main ==
  /\ stage = "loop"
  /\ todo = <<>>
  /\ stage' = "exit0"
  /\ UNCHANGED <<raw_conversations_json, conversations_md, todo, done, convo_id,
                 fetched>>
  /\ UNCHANGED aroundCache

\* the frame of get_conversation is gone once the script has its outcome
FinishFetch ==
  /\ stage # "fetch"
  /\ Finish

(***************************************************************************)
(* cli.py: export_conversations. The raw records are those of the client   *)
(* model; whether Conversation.from_api_data raises on them, and how many  *)
(* conversations the formatter formats before it raises, are inputs.       *)
(***************************************************************************)
\* what the command line gives: ids, --batch-size and --format
Arguments ==
  [conversation_ids : RunLists, batch_size : 1..MaxBatch,
   format : {"markdown", "json", "csv"}]

\* the command is not running
CliRest ==
  /\ args = [conversation_ids |-> <<>>, batch_size |-> 1, format |-> "markdown"]
  /\ cli_stage = "exit0"
  /\ output_opened = FALSE
  /\ formatted = 0

\* main has parsed the command line and loaded the configuration
CliInit ==
  /\ args \in Arguments
  /\ cli_stage = "start"
  /\ output_opened = FALSE
  /\ formatted = 0

\* lines 81-94: export_conversations up to the fetch
Call_export_conversations ==
  /\ cli_stage = "start"
  /\ cli_stage' = IF args.conversation_ids = <<>> THEN "exit1" ELSE "fetch"
  /\ UNCHANGED <<args, output_opened, formatted>>
  /\ UNCHANGED aroundCli

\* lines 97-100: client.get_conversations(conversation_ids, batch_size)
FetchBatch ==
  /\ cli_stage = "fetch"
  /\ Call_get_conversations(args.conversation_ids, args.batch_size)

\* create_formatter(args.format, f, indent=2 if args.format == 'json' else None)
Formatter(format) ==
  CreateFormatter(FORMATTERS, format, [indent |-> IF format = "json" THEN 2 ELSE 0])

\* lines 102-125: get_conversations has returned; converts says that
\* from_api_data made a Conversation of every record, n is the number of
\* conversations formatted before format_conversations returned or raised
Exported(converts, n) ==
  /\ cli_stage = "fetch"
  /\ pc = "returned"
  /\ n <= Len(The(result))
  /\ IF ~converts
       THEN /\ cli_stage' = "exit1"
            /\ UNCHANGED <<output_opened, formatted>>
       ELSE /\ output_opened' = TRUE
            /\ IF Raised(Formatter(args.format))
                 THEN /\ cli_stage' = "exit1"
                      /\ UNCHANGED formatted
                 ELSE /\ formatted' = n
                      /\ cli_stage' = IF n = Len(The(result)) THEN "exit0" ELSE "exit1"
  /\ UNCHANGED args
  /\ UNCHANGED aroundCli

\* a handler that goes on to write an output without conversations
ExportFailed_lenient ==
  /\ cli_stage = "fetch"
  /\ pc = "raised"
  /\ cli_stage' = "exit0"
  /\ output_opened' = TRUE
  /\ UNCHANGED <<args, formatted>>
  /\ UNCHANGED aroundCli

\* lines 127-131: get_conversations has raised: except IntercomAPIError
ExportFailed ==
  /\ cli_stage = "fetch"
  /\ pc = "raised"
  /\ cli_stage' = "exit1"
  /\ UNCHANGED <<args, output_opened, formatted>>
  /\ UNCHANGED aroundCli

(***************************************************************************)
(* The specifications.                                                     *)
(***************************************************************************)
\* the client alone: nothing is being converted
Init ==
  /\ ClientInit
  /\ ModelRest
  /\ FormatRest
  /\ FactoryRest
  /\ CacheRest
  /\ CliRest

Next ==
  \/ \E ids \in IdLists, b \in 1..MaxBatch : Call_get_conversations(ids, b)
  \/ BatchSuccess
  \/ \E header \in RetryAfterHeaders : BatchFailure(429, header)
  \/ \E status \in FailureStatuses : BatchFailure(status, None)
  \/ \E id \in Ids : Call_get_conversation(id)
  \/ \E body \in GetBodies : GetSuccess(body)
  \/ \E status \in FailureStatuses : GetFailed(status, None)
  \/ \E header \in RetryAfterHeaders : GetFailed(429, header)
  \/ FallbackSuccess
  \/ \E status \in FailureStatuses : FallbackFailed(status, None)
  \/ \E header \in RetryAfterHeaders : FallbackFailed(429, header)
  \/ Finish

Spec == Init /\ [][Next]_vars

\* The client against an API that answers every request with a 200, and a
\* caller that remembers what get_conversation returned for each id.
NextCompare ==
  \/ \E ids \in IdLists, b \in 1..MaxBatch : Call_get_conversations(ids, b)
  \/ BatchSuccess
  \/ \E id \in Ids : Call_get_conversation(id)
  \/ \E body \in GetBodies : GetSuccess(body)
  \/ FallbackSuccess
  \/ Finish
  \/ FinishNoting

SpecCompare == Init /\ [][NextCompare]_vars

\* the remote API answers the request that get_conversations waits on
BatchAnswered ==
  \/ BatchSuccess
  \/ \E header \in RetryAfterHeaders : BatchFailure(429, header)
  \/ \E status \in FailureStatuses : BatchFailure(status, None)

\* Calls of get_conversations alone, against an API that answers every
\* request in the end: session.post blocks until the response is there.
NextBatch ==
  \/ \E ids \in RunLists, b \in 1..MaxBatch : Call_get_conversations(ids, b)
  \/ BatchSuccess
  \/ \E header \in RetryAfterHeaders : BatchFailure(429, header)
  \/ \E status \in FailureStatuses : BatchFailure(status, None)
  \/ Finish

SpecBatch == Init /\ [][NextBatch]_vars /\ WF_vars(BatchAnswered)

\* the client at rest, on an API that holds nothing
ClientRest ==
  /\ held = {}
  /\ ClientInit

\* a raw record becomes a Conversation, which is rendered
InitModel ==
  /\ ClientRest
  /\ ModelInit
  /\ FormatRest
  /\ FactoryRest
  /\ CacheRest
  /\ CliRest

NextModel ==
  \/ Call_from_api_data
  \/ Call_format_conversation
  \/ Call_to_dict

SpecModel == InitModel /\ [][NextModel]_vars

\* a formatter is called on a list of Conversations
InitFormat ==
  /\ ClientRest
  /\ ModelRest
  /\ FormatInit
  /\ FactoryRest
  /\ CacheRest
  /\ CliRest

NextFormat ==
  \/ Call_format_conversations
  \/ \E k \in 1..MaxConversations : Call_format_one(k)

SpecFormat == InitFormat /\ [][NextFormat]_vars

\* the factory is called on the registry of a freshly imported module
InitFactory ==
  /\ ClientRest
  /\ ModelRest
  /\ FormatRest
  /\ FactoryRest
  /\ CacheRest
  /\ CliRest

NextFactory ==
  \/ \E name \in FormatNames, cls \in Candidates : Call_register_formatter(name, cls)
  \/ \E name \in FormatNames, kwargs \in KeywordArguments : Call_create_formatter(name, kwargs)
  \/ Call_get_available_formats

SpecFactory == InitFactory /\ [][NextFactory]_vars

\* a run of export_conversations.py over a list of ids, against an API that
\* chooses what it answers
InitCache ==
  /\ ClientInit
  /\ ModelRest
  /\ FormatRest
  /\ FactoryRest
  /\ CacheInit
  /\ CliRest

NextCache ==
  \/ \E has_token \in BOOLEAN, formats \in BOOLEAN :
       Call_process_single_conversation(has_token, formats)
  \/ Fetch
  \/ \E body \in GetBodies : GetSuccess(body)
  \/ \E status \in FailureStatuses \cup {429} : GetFailed(status, None)
  \/ \E convs \in SearchAnswers : FallbackAnswered(convs)
  \/ \E status \in FailureStatuses \cup {429} : FallbackFailed(status, None)
  \/ \E formats \in BOOLEAN : Stored(formats)
  \/ FetchRaised
  \/ Return_main
  \/ FinishFetch

SpecCache == InitCache /\ [][NextCache]_vars

\* a run of the export command
InitCli ==
  /\ ClientInit
  /\ ModelRest
  /\ FormatRest
  /\ FactoryRest
  /\ CacheRest
  /\ CliInit

NextCli ==
  \/ Call_export_conversations
  \/ FetchBatch
  \/ BatchSuccess
  \/ \E status \in FailureStatuses \cup {429} : BatchFailure(status, None)
  \/ \E converts \in BOOLEAN, n \in 0..MaxRun : Exported(converts, n)
  \/ ExportFailed

SpecCli == InitCli /\ [][NextCli]_vars

TypeOK ==
  /\ held \subseteq Ids
  /\ pc \in {"idle", "post", "get", "fallback", "returned", "raised"}
  /\ attempt \in 0..2
  /\ (requests = <<>>) = (response = NoResponse)

(***************************************************************************)
(* Properties of get_conversations and get_conversation.                   *)
(***************************************************************************)
InBatch == op = "get_conversations"

InOne == op = "get_conversation"

LastRequest == requests[Len(requests)]

\* the requests of the current call issued for the slice starting at s
RequestsOfSlice(s) == {k \in DOMAIN requests : requests[k].slice = s}

\* a step of get_conversations that issues a request and stays in the
\* attempt loop of the same slice: the request will be retried
RetryStep ==
  /\ InBatch
  /\ pc = "post"
  /\ requests' # requests
  /\ pc' = "post"
  /\ i' = i

\* a call that is over issues nothing more: the caller takes its outcome
OverIsFinal == Over => (pc' = "idle" /\ requests' = <<>>)

\* C1: get_conversations retries a batch only after a rate-limit response
\* and issues at most 3 requests for one batch; when the third attempt is
\* rate-limited too, the RateLimitError leaves get_conversations and no
\* fourth request follows.
C1_RetryCeiling ==
  /\ [](InBatch =>
          /\ \A s \in 0..Len(conversation_ids) : Cardinality(RequestsOfSlice(s)) <= 3
          /\ (response.status = 429 /\ LastRequest.attempt = 2)
               => (pc = "raised" /\ error.cls = "RateLimitError"))
  /\ [][(RetryStep => response'.status = 429) /\ OverIsFinal]_vars

C1_Witness ==
  /\ InBatch
  /\ pc = "raised"
  /\ error.cls = "RateLimitError"
  /\ Cardinality(RequestsOfSlice(i)) = 3
  /\ Len(sleeps) = 2

\* C2 as stated: on a retried rate-limit response the batch gets
\* ceil(previous_size/2) ids when it had more than one, and keeps its one id.
C2_CeilHalving ==
  [][RetryStep =>
       Len(batch') = IF Len(batch) > 1 THEN (Len(batch) + 1) \div 2 ELSE 1]_vars

\* C2 amended: on a retried rate-limit response the working batch is cut to
\* its first floor(previous_size/2) ids when it had more than one (3 ids
\* become 1), and a batch of one id keeps it.
C2_FloorHalving ==
  [][RetryStep =>
       /\ Len(batch') = IF Len(batch) > 1 THEN Len(batch) \div 2 ELSE 1
       /\ batch' = SubSeq(batch, 1, Len(batch'))]_vars

C2_Witness ==
  /\ InBatch
  /\ pc = "post"
  /\ attempt = 1
  /\ Len(Slice(conversation_ids, i, i + batch_size)) = 3
  /\ Len(batch) = 1

\* C3: before a retry get_conversations sleeps for the retry-after value of
\* the rate-limit response whenever the response carries an integer one (0
\* included), and for 2^attempt seconds, attempt being the index of the
\* failed attempt, only when it carries none.
C3_WaitIsRetryAfter ==
  (InBatch /\ pc = "post" /\ attempt > 0 /\ response.status = 429) =>
    /\ sleeps # <<>>
    /\ sleeps[Len(sleeps)].after = Len(requests)
    /\ sleeps[Len(sleeps)].secs =
         IF RetryAfterOf(response.header) # None
           THEN The(RetryAfterOf(response.header))
           ELSE Pow2(LastRequest.attempt)

\* C4: a 401 response or another failure response that is not a 429 ends
\* get_conversations with the matching exception right after that request:
\* no sleep follows it, the batch is not retried and no later batch is
\* requested.
C4_FailureIsImmediate ==
  /\ [](InBatch /\ response.status \in FailureStatuses =>
          /\ pc = "raised"
          /\ error = (IF response.status = 401
                        THEN AuthenticationError
                        ELSE IntercomAPIError("API request failed: " \o Str(response.status)))
          /\ \A k \in DOMAIN sleeps : sleeps[k].after < Len(requests))
  /\ [][OverIsFinal]_vars

C4_Witness ==
  /\ InBatch
  /\ pc = "raised"
  /\ response.status = 401
  /\ error.cls = "AuthenticationError"
  /\ Len(requests) >= 2
  /\ i + batch_size < Len(conversation_ids)

CeilDiv(n, d) == (n + d - 1) \div d

\* the k-th consecutive slice of batch_size ids of the id list (k from 1)
KthSlice(k) == Slice(conversation_ids, (k - 1) * batch_size, k * batch_size)

\* every requested id has a record on the remote API
AllHeld == Range(conversation_ids) \subseteq held

\* C5: against an API that holds a record for every requested id and only
\* answers with successes, the set of records get_conversations returns is
\* the set of records that get_conversation returns for the ids one by one.
C5_BatchEqualsSingles ==
  (/\ InBatch
   /\ pc = "returned"
   /\ clean
   /\ AllHeld
   /\ \A id \in Range(conversation_ids) : singles[id] # None)
  => Range(The(result)) = {The(singles[id]) : id \in Range(conversation_ids)}

C5_Witness ==
  /\ InBatch
  /\ pc = "returned"
  /\ clean
  /\ AllHeld
  /\ \A id \in Range(conversation_ids) : singles[id] # None
  /\ Cardinality(Range(conversation_ids)) = 2
  /\ Len(requests) = 2

RECURSIVE ConcatSlices(_)
\* the records the API sends for the first k slices, in slice order
ConcatSlices(k) ==
  IF k = 0 THEN <<>> ELSE ConcatSlices(k - 1) \o SearchResult(KthSlice(k))

\* C6: when every request succeeds (and no batch is given up as not found),
\* get_conversations on n ids with batch size B issues exactly ceil(n/B)
\* search requests, the k-th with the k-th consecutive slice of B ids (the
\* last with the remainder), and returns the records of the responses
\* concatenated in that order.
C6_SlicesInOrder ==
  (InBatch /\ clean) =>
    /\ Len(requests) <= CeilDiv(Len(conversation_ids), batch_size)
    /\ \A k \in DOMAIN requests :
         /\ requests[k].method = "POST"
         /\ requests[k].ids = KthSlice(k)
         /\ Len(requests[k].ids) =
              IF k * batch_size <= Len(conversation_ids)
                THEN batch_size
                ELSE Len(conversation_ids) % batch_size
    /\ pc = "returned" =>
         /\ Len(requests) = CeilDiv(Len(conversation_ids), batch_size)
         /\ result = Some(ConcatSlices(Len(requests)))

C6_Witness ==
  /\ InBatch
  /\ clean
  /\ pc = "returned"
  /\ Len(conversation_ids) = 3
  /\ batch_size = 2
  /\ Len(requests) = 2
  /\ Len(The(result)) = 3

\* C7: when a 200 response to a request for exactly one id has no record,
\* get_conversations raises the not-found error that names that id; it
\* does not go on.
C7_SingleIdNotFound ==
  (/\ InBatch
   /\ response.status = 200
   /\ response.convs = <<>>
   /\ Len(LastRequest.ids) = 1)
  => /\ pc = "raised"
     /\ error = IntercomAPIError("Conversation " \o Str(LastRequest.ids[1]) \o " not found")

C7_Witness ==
  /\ InBatch
  /\ response.status = 200
  /\ response.convs = <<>>
  /\ Len(LastRequest.ids) = 1
  /\ pc = "raised"
  /\ Len(requests) = 2

\* the fallback requests of the current get_conversation call
FallbackRequests == {k \in DOMAIN requests : requests[k].method = "POST"}

\* C8: the fallback search request of get_conversation follows the retry
\* policy of get_conversations: a rate-limit response to it is slept on
\* and retried, and the RateLimitError reaches the caller only after 3
\* attempts.
C8_FallbackRetries ==
  (/\ InOne
   /\ pc = "raised"
   /\ error.cls = "RateLimitError")
  => /\ Cardinality(FallbackRequests) = 3
     /\ Len(sleeps) = 2

\* C9: when the by-id request of get_conversation gets a 401 response,
\* get_conversation raises AuthenticationError at once and issues no
\* further request.
C9_GetAuthIsTerminal ==
  (/\ InOne
   /\ requests # <<>>
   /\ LastRequest.method = "GET"
   /\ response.status = 401)
  => /\ pc = "raised"
     /\ error = AuthenticationError

\* C10: when the by-id request gave no record of the requested id and the
\* fallback request succeeds with zero records, get_conversation raises
\* the not-found error whose message names the requested id; what it
\* returns is never an empty or null record.
C10_FallbackNotFound ==
  /\ (/\ InOne
      /\ requests # <<>>
      /\ LastRequest.method = "POST"
      /\ response.status = 200
      /\ response.convs = <<>>)
     => /\ pc = "raised"
        /\ error.cls = "IntercomAPIError"
        /\ error.msg = "Conversation " \o Str(conversation_id) \o " not found via fallback"
  /\ (InOne /\ pc = "returned") => (result # None /\ The(result).id # "")

C10_Witness ==
  /\ InOne
  /\ Len(requests) = 2
  /\ requests[1].method = "GET"
  /\ LastRequest.method = "POST"
  /\ response.status = 200
  /\ response.convs = <<>>
  /\ pc = "raised"
  /\ conversation_id = 2

(***************************************************************************)
(* Properties of Conversation.from_api_data and of what renders it.        *)
(***************************************************************************)
Data == The(api_data)

Made == The(conversation)

\* from_api_data has returned or raised
Converted == conversation # None \/ conv_exc # None

\* the number of seconds from 1970-01-01 00:00:00 to the naive datetime
ToEpoch(dt) == DaysFromCivil(dt) * 86400 + SecondOfDay(dt)

\* a message that has what Message.from_api_data reads
WellFormedMessage(d) ==
  /\ {"id", "author", "created_at"} \subseteq DOMAIN d
  /\ {"id", "name", "type"} \subseteq DOMAIN d.author

\* a part that is a mapping with a non-empty body and converts
WellFormedPart(part) ==
  /\ part.t = "dict"
  /\ WellFormedMessage(part.d)
  /\ "part_type" \in DOMAIN part.d
  /\ "body" \in DOMAIN part.d
  /\ part.d.body # ""

HasOpening == "conversation_message" \in DOMAIN Data

HasGoodOpening == HasOpening /\ WellFormedMessage(Data.conversation_message)

RawParts ==
  IF "conversation_parts" \in DOMAIN Data
       /\ "conversation_parts" \in DOMAIN Data.conversation_parts
    THEN Data.conversation_parts.conversation_parts ELSE <<>>

GoodParts == {k \in DOMAIN RawParts : WellFormedPart(RawParts[k])}

MessageIds == {Made.messages[k].id : k \in DOMAIN Made.messages}

\* the created_at that the raw record has for the message of this id
RawCreatedAt(id) ==
  IF HasOpening /\ Data.conversation_message.id = id
    THEN Data.conversation_message.created_at
    ELSE LET k == CHOOSE k \in GoodParts : RawParts[k].d.id = id
         IN  RawParts[k].d.created_at

\* C11: a record with an opening message and N well-formed parts, in any
\* order of their timestamps, becomes a Conversation of exactly N+1
\* messages, the opening message and each part once, in ascending order of
\* created_at.
C11_AllMessagesSorted ==
  (Converted /\ HasGoodOpening /\ GoodParts = DOMAIN RawParts) =>
    /\ conversation # None
    /\ Len(Made.messages) = Len(RawParts) + 1
    /\ MessageIds = {"msg0"} \cup {RawParts[k].d.id : k \in DOMAIN RawParts}
    /\ \A j, k \in DOMAIN Made.messages :
         j < k => ToEpoch(Made.messages[j].created_at) <= ToEpoch(Made.messages[k].created_at)

\* two parts after an opening message, the last part older than the opening
\* message and the first one younger: the last part comes out first
C11_Witness ==
  /\ conversation # None
  /\ HasGoodOpening
  /\ Len(RawParts) = 2
  /\ GoodParts = {1, 2}
  /\ RawParts[2].d.created_at < Data.conversation_message.created_at
  /\ RawParts[1].d.created_at > Data.conversation_message.created_at
  /\ [k \in 1..3 |-> Made.messages[k].id] = <<"part2", "msg0", "part1">>

\* C12: a part that is not a mapping, has no non-empty body or does not
\* convert never makes from_api_data raise: it is left out, and the opening
\* message and every well-formed part are in the result.
C12_BadPartsLeftOut ==
  (Converted /\ (HasOpening => HasGoodOpening)
     /\ {"id", "created_at", "updated_at"} \subseteq DOMAIN Data) =>
    /\ conv_exc = None
    /\ Len(Made.messages) = Cardinality(GoodParts) + (IF HasOpening THEN 1 ELSE 0)
    /\ MessageIds = {RawParts[k].d.id : k \in GoodParts}
                      \cup (IF HasOpening THEN {"msg0"} ELSE {})

\* an opening message, a part without an author and a well-formed part
C12_Witness ==
  /\ conversation # None
  /\ HasGoodOpening
  /\ Len(RawParts) = 2
  /\ RawParts[1].t = "dict"
  /\ "body" \in DOMAIN RawParts[1].d
  /\ "author" \notin DOMAIN RawParts[1].d
  /\ GoodParts = {2}
  /\ MessageIds = {"msg0", "part2"}

\* the tags of the raw record, whatever their wrapping
RawTags ==
  IF "tags" \notin DOMAIN Data THEN <<>>
  ELSE IF Data.tags.t = "list" THEN Data.tags.items
  ELSE IF "tags" \in DOMAIN Data.tags.d THEN Data.tags.d.tags
  ELSE <<>>

\* a tag is a string or an object with a name
NamedTag(tag) == tag.t = "str" \/ (tag.t = "dict" /\ "name" \in DOMAIN tag.d)

NameOfTag(tag) == IF tag.t = "str" THEN tag.s ELSE tag.d.name

\* C13: tags given as a list of strings, a list of objects with a name or a
\* tags.tags wrapper of either become the flat list of the names as strings,
\* in the order given; a record without tags has the empty list.
C13_TagsAreFlatNames ==
  (conversation # None /\ \A k \in DOMAIN RawTags : NamedTag(RawTags[k])) =>
    /\ Len(Made.tags) = Len(RawTags)
    /\ \A k \in DOMAIN RawTags : Made.tags[k] = PyStr(NameOfTag(RawTags[k]))
    /\ "tags" \notin DOMAIN Data => Made.tags = <<>>

\* a wrapper that holds an object and a string
C13_Witness ==
  /\ conversation # None
  /\ "tags" \in DOMAIN Data
  /\ Data.tags.t = "dict"
  /\ Len(RawTags) = 2
  /\ RawTags[1].t = "dict"
  /\ RawTags[2].t = "str"
  /\ Made.tags = <<PyStr("bug"), PyStr("vip")>>

\* C14 as stated: the fixed offset brings created_at=1672567200 to
\* 2023-01-01T14:00:00.
C14_ShiftedToFourteen ==
  (conversation # None /\ Data.created_at = 1672567200) =>
    IsoFormat(Made.created_at) = "2023-01-01T14:00:00"

\* C14: created_at, updated_at and the created_at of every message are all
\* two hours after the UTC time of their epoch seconds, so that
\* created_at=1672567200 becomes 2023-01-01T12:00:00, and the markdown text
\* and the dict that the JSON formatter encodes show these shifted values.
C14_UniformShift ==
  conversation # None =>
    /\ ToEpoch(Made.created_at) = Data.created_at + 2 * 3600
    /\ ToEpoch(Made.updated_at) = Data.updated_at + 2 * 3600
    /\ \A k \in DOMAIN Made.messages :
         ToEpoch(Made.messages[k].created_at) = RawCreatedAt(Made.messages[k].id) + 2 * 3600
    /\ Data.created_at = 1672567200 => IsoFormat(Made.created_at) = "2023-01-01T12:00:00"
    /\ (markdown # None /\ "lines" \in DOMAIN The(markdown)) =>
         /\ The(markdown).lines[2] = "**Created:** " \o StrfTime(Made.created_at) \o "\n"
         /\ Data.created_at = 1672567200 =>
              The(markdown).lines[2] = "**Created:** 2023-01-01 12:00:00\n"
    /\ as_dict # None =>
         /\ The(as_dict).created_at = IsoFormat(Made.created_at)
         /\ The(as_dict).updated_at = IsoFormat(Made.updated_at)
         /\ \A k \in DOMAIN Made.messages :
              The(as_dict).messages[k].created_at = IsoFormat(Made.messages[k].created_at)
         /\ Data.created_at = 1672567200 => The(as_dict).created_at = "2023-01-01T12:00:00"

\* the record of 1672567200 with a message, converted and rendered twice
C14_Witness ==
  /\ conversation # None
  /\ Data.created_at = 1672567200
  /\ Made.messages # <<>>
  /\ markdown # None
  /\ as_dict # None
  /\ The(as_dict).created_at = "2023-01-01T12:00:00"

\* C15 as stated: the datetime of a record is the UTC time of its epoch
\* seconds, with no shift.
C15_UtcWithoutShift ==
  conversation # None =>
    /\ ToEpoch(Made.created_at) = Data.created_at
    /\ ToEpoch(Made.updated_at) = Data.updated_at

\* C15: the datetime of a record is two hours after the UTC time of its
\* epoch seconds, on the day that this falls on: created_at=1672567200 is
\* 2023-01-01 12:00:00 and updated_at=1672567500 is 2023-01-01 12:05:00, of
\* a Conversation and of a Message.
C15_TwoHoursAfterUtc ==
  conversation # None =>
    /\ ToEpoch(Made.created_at) - Data.created_at = 7200
    /\ ToEpoch(Made.updated_at) - Data.updated_at = 7200
    /\ Data.created_at = 1672567200 =>
         Made.created_at = [year |-> 2023, month |-> 1, day |-> 1,
                            hour |-> 12, minute |-> 0, second |-> 0]
    /\ Data.updated_at = 1672567500 =>
         Made.updated_at = [year |-> 2023, month |-> 1, day |-> 1,
                            hour |-> 12, minute |-> 5, second |-> 0]
    /\ \A k \in DOMAIN Made.messages :
         RawCreatedAt(Made.messages[k].id) = 1672567500 =>
           Made.messages[k].created_at = [year |-> 2023, month |-> 1, day |-> 1,
                                          hour |-> 12, minute |-> 5, second |-> 0]

\* the record of the tests, and one whose shift crosses midnight
C15_Witness ==
  /\ conversation # None
  /\ Data.created_at = 1672567200
  /\ Data.updated_at = 1672610400
  /\ Made.updated_at = [year |-> 2023, month |-> 1, day |-> 2,
                        hour |-> 0, minute |-> 0, second |-> 0]

(***************************************************************************)
(* Properties of the formatters.                                           *)
(***************************************************************************)
Fmt == The(formatter)

Result == The(returned)

\* the object that json.dumps is given for a Conversation
ObjectOf(c) == DictObject(ToDict(c))

\* C16 as stated: what a JSONFormatter with a sink writes for a list of
\* conversations is one valid JSON array of the conversations in their
\* order, with a single comma between two elements and no other.
C16_WrittenIsJsonArray ==
  (formatter # None /\ Fmt.class = "json" /\ Fmt.sink
     /\ called = <<"format_conversations">> /\ calls = 1) =>
    /\ written # None
    /\ Loads(The(written))
         = Some(JArr([k \in DOMAIN conversations |-> ObjectOf(conversations[k])]))

\* the encoding of one Conversation in what format_conversation returned:
\* what follows the separator, when the sink is past the header
Encoding ==
  IF Fmt.sink /\ Len(file) > 1
    THEN SubSeq(Result.text, 3, Len(Result.text))
    ELSE Result.text

\* the parsed object has the id, the bodies, the tags and the
\* custom_attributes of the Conversation
SameFields(obj, c) ==
  /\ obj.t = "dict"
  /\ obj.d.id = JStr(c.id)
  /\ obj.d.messages.t = "list"
  /\ Len(obj.d.messages.items) = Len(c.messages)
  /\ \A k \in DOMAIN c.messages : obj.d.messages.items[k].d.body = JStr(c.messages[k].body)
  /\ obj.d.tags.t = "list"
  /\ Len(obj.d.tags.items) = Len(c.tags)
  /\ \A k \in DOMAIN c.tags : obj.d.tags.items[k] = JStr(c.tags[k].s)
  /\ obj.d.custom_attributes.t = "dict"
  /\ DOMAIN obj.d.custom_attributes.d = DOMAIN c.custom_attributes
  /\ \A k \in DOMAIN c.custom_attributes :
       obj.d.custom_attributes.d[k] = JStr(c.custom_attributes[k])

\* C17: the text that the JSON formatter makes of a Conversation parses
\* back to an object with the same id, the same message bodies in the same
\* number and order, the same tags and the same custom_attributes; so does
\* every element of the array it returns for a list.
C17_RoundTrip ==
  (formatter # None /\ Fmt.class = "json" /\ returned # None) =>
    /\ (Len(called) = 2) =>
         /\ "text" \in DOMAIN Result
         /\ Loads(Encoding) # None
         /\ SameFields(The(Loads(Encoding)), conversations[called[2]])
    /\ (called = <<"format_conversations">> /\ ~Fmt.sink) =>
         /\ "text" \in DOMAIN Result
         /\ Loads(Result.text) # None
         /\ The(Loads(Result.text)).t = "list"
         /\ Len(The(Loads(Result.text)).items) = Len(conversations)
         /\ \A k \in DOMAIN conversations :
              SameFields(The(Loads(Result.text)).items[k], conversations[k])

\* the Conversation of three messages, with a backslash in a body, a tag and
\* an attribute and a quote in a key, encoded alone
C17_Witness ==
  /\ formatter # None
  /\ Fmt.class = "json"
  /\ returned # None
  /\ Len(called) = 2
  /\ conversations[called[2]].id = "conv3"
  /\ Len(conversations[called[2]].messages) = 3
  /\ Loads(Result.text) # None
  /\ The(Loads(Result.text)).d.custom_attributes.d["k\"1"] = JStr("v\\")

RECURSIVE Split(_, _, _, _)
\* text.split(sep), of a separator of one character
Split(text, sep, p, word) ==
  IF p > Len(text) THEN <<word>>
  ELSE IF Char(text, p) = sep THEN <<word>> \o Split(text, sep, p + 1, "")
  ELSE Split(text, sep, p + 1, word \o Char(text, p))

\* the rows of a CSV text
Rows(text) == IF text = "" THEN <<>> ELSE Split(text, "\n", 1, "")

\* C18 as stated: format_conversation of a CSVFormatter in flattened mode
\* returns one row for each message of the Conversation, in their number,
\* each with the id of the Conversation in its first column.
C18_RowPerMessage ==
  (formatter # None /\ Fmt.class = "csv" /\ Fmt.flatten_messages
     /\ returned # None /\ Len(called) = 2) =>
    /\ "text" \in DOMAIN Result
    /\ Len(Rows(Result.text)) = Len(conversations[called[2]].messages)
    /\ \A k \in DOMAIN Rows(Result.text) :
         Split(Rows(Result.text)[k], Fmt.delimiter, 1, "")[1] = conversations[called[2]].id

(***************************************************************************)
(* Properties of the factory.                                              *)
(***************************************************************************)
\* the names that are one word in some letter case
SameWord(a, b) ==
  \E word \in {{"markdown", "MARKDOWN", "Markdown"}, {"json"}, {"xml", "XML"}} :
    a \in word /\ b \in word

\* the registrations of the word of this name, in their order
RegistrationsOf(name) == SelectSeq(registrations, LAMBDA r : SameWord(r[1], name))

\* C19: once register_formatter(name, C) has returned, create_formatter of
\* the name in any letter case, with keyword arguments that C takes,
\* returns an instance of C, which is the class of the last such
\* registration and not the class the name had before.
C19_LastRegisteredIsCreated ==
  (Len(factory_called) = 3 /\ factory_called[1] = "create_formatter"
     /\ RegistrationsOf(factory_called[2]) # <<>>) =>
    LET regs == RegistrationsOf(factory_called[2])
        cls == regs[Len(regs)][2]
        made == The(factory_returned)
    IN  /\ Raised(made) => ~(DOMAIN factory_called[3] \subseteq cls.takes)
        /\ ~Raised(made) => made.instance_of = cls.name

\* "markdown" is registered twice, in two letter cases, and created in a third
C19_Witness ==
  /\ Len(factory_called) = 3
  /\ factory_called[1] = "create_formatter"
  /\ factory_called[2] = "markdown"
  /\ Len(registrations) = 2
  /\ registrations[1] = <<"Markdown", JSONFormatterClass>>
  /\ registrations[2][1] = "MARKDOWN"
  /\ The(factory_returned) = [instance_of |-> "NewMarkdownFormatter", options |-> EmptyDict]

\* a class that implements the contract of BaseFormatter
Concrete(cls) ==
  /\ cls.subclass
  /\ cls.name # "BaseFormatter"
  /\ Contract \subseteq cls.implements

\* C20: register_formatter of a class that is not a subclass of
\* BaseFormatter, of BaseFormatter, or of a subclass that lacks one of
\* format_header, format_conversation and format_footer raises TypeError, and
\* no such class is ever in the registry.
C20_OnlyConcreteRegistered ==
  /\ \A name \in DOMAIN FORMATTERS : Concrete(FORMATTERS[name])
  /\ (Len(factory_called) = 3 /\ factory_called[1] = "register_formatter"
        /\ ~Concrete(factory_called[3])) =>
       /\ Raised(The(factory_returned))
       /\ SubSeq(The(factory_returned).exc, 1, 9) = "TypeError"

\* a subclass that implements all of the contract but format_footer
C20_Witness ==
  /\ Len(factory_called) = 3
  /\ factory_called[1] = "register_formatter"
  /\ factory_called[3].subclass
  /\ factory_called[3].implements = Contract \ {"format_footer"}
  /\ Raised(The(factory_returned))

(***************************************************************************)
(* Properties of get_conversations under rate limiting.                    *)
(***************************************************************************)
\* the slice of the id list that the current iteration started with
OriginalSlice == Slice(conversation_ids, i, i + batch_size)

\* a step of get_conversations that issues the request of a retry
RetryRequest ==
  /\ InBatch
  /\ pc = "post"
  /\ attempt > 0
  /\ requests' # requests

\* C24: after a rate-limit response has halved a batch in
\* get_conversations, the id filter of the retry request is the reduced
\* batch, never the ids of the original, larger batch.
C24_RetryCarriesReducedBatch ==
  [][RetryRequest => requests'[Len(requests')].ids = batch]_vars

\* the requests of the call that got a 200 response
Succeeded == {k \in DOMAIN requests : requests[k].ok}

\* C25: whenever get_conversations returns normally, every requested id was
\* in the id filter of at least one request that got a successful response:
\* halving a batch never makes an id skipped without an error.
C25_NoIdSkipped ==
  (InBatch /\ pc = "returned") =>
    \A id \in Range(conversation_ids) :
      \E k \in Succeeded : id \in Range(requests[k].ids)

\* a call returns after a slice of three ids was halved and retried
C25_Witness ==
  /\ InBatch
  /\ pc = "returned"
  /\ Len(conversation_ids) = 3
  /\ batch_size = 3
  /\ Len(batch) = 1
  /\ Len(requests) = 2
  /\ ~requests[1].ok

\* the call ended with the not-found error of get_conversations
RaisedNotFound ==
  /\ InBatch
  /\ pc = "raised"
  /\ response.status = 200

\* C26: get_conversations raises its not-found error only for a slice that
\* originally held exactly one id: an empty successful response to a slice
\* that originally held two or more ids never raises not-found, also after
\* rate-limit responses have reduced the working batch.
C26_NotFoundOnlyForSingleSlice ==
  RaisedNotFound => Len(OriginalSlice) = 1

\* C28: for every id list, batch size and sequence of responses,
\* get_conversations issues at most 3 * ceil(n/B) requests and sleeps at
\* most twice per slice, the slice index never moves backwards, and the
\* call ends, returning or raising.
C28_BoundedAndTerminates ==
  /\ [](InBatch =>
          /\ Len(requests) <= 3 * CeilDiv(Len(conversation_ids), batch_size)
          /\ Len(sleeps) <= 2
          /\ \A k \in DOMAIN sleeps : requests[sleeps[k].after].slice = i)
  /\ [][(InBatch /\ pc = "post") => i' >= i]_vars
  /\ (InBatch ~> Over)

\* a call of two slices that used every request it may use and was given up
C28_Witness ==
  /\ InBatch
  /\ pc = "raised"
  /\ Len(conversation_ids) = 2
  /\ batch_size = 1
  /\ Len(requests) = 3 * CeilDiv(Len(conversation_ids), batch_size)
  /\ Len(sleeps) = 2
  /\ i = 1

\* the call that this step makes on the factory returns normally
FactoryReturns == ~Raised(The(factory_returned'))

\* C30: the registry changes only through a register_formatter call that
\* returns: a rejected register_formatter, every create_formatter (also one
\* that fails with UnknownFormatError) and get_available_formats leave the
\* mapping of names to classes as it was, and no call removes a name.
C30_RegistryFrame ==
  [][/\ DOMAIN FORMATTERS \subseteq DOMAIN FORMATTERS'
     /\ (FORMATTERS' # FORMATTERS) =>
          (factory_called'[1] = "register_formatter" /\ FactoryReturns)
     /\ (factory_called'[1] = "register_formatter" /\ FactoryReturns) =>
          FORMATTERS' = Override(FORMATTERS, Lower(factory_called'[2]),
                                 factory_called'[3])
     /\ (factory_called'[1] = "get_available_formats") =>
          Range(The(factory_returned').keys) = DOMAIN FORMATTERS]_vars

\* after a registration, create_formatter of a name that nobody registered
\* fails with UnknownFormatError
C30_Witness ==
  /\ Len(factory_called) = 3
  /\ factory_called[1] = "create_formatter"
  /\ The(factory_returned) = Exc("UnknownFormatError")
  /\ registrations # <<>>
  /\ FORMATTERS # BuiltIn
  /\ factory_calls = 3

(***************************************************************************)
(* Properties of the export script and its cache file.                     *)
(***************************************************************************)
\* the records that a cache file holds, in order: none without a file
CachedIn(cache) == IF cache = None THEN <<>> ELSE RawData(The(cache))

Cached == CachedIn(raw_conversations_json)

\* the cache file holds a record of this id
Holds(id) ==
  \E k \in DOMAIN Cached : Cached[k] = StrDict(Record(id))

\* a step in which main calls process_single_conversation
CallStep == done' # done

\* C21: the cache is looked at before the network: when
\* process_single_conversation is called with an id of which the cache file
\* holds a record, the call issues no client request (get_conversation is
\* not called) and leaves the cache file as it is.
C21_HitNeedsNoRequest ==
  [][(CallStep /\ Holds(Head(todo))) =>
       /\ raw_conversations_json' = raw_conversations_json
       /\ stage' # "fetch"
       /\ pc' = "idle"
       /\ requests' = <<>>]_vars

\* the second id of a run is found in the cache that the first one filled
C21_Witness ==
  /\ done = <<1, 1>>
  /\ stage = "loop"
  /\ fetched = <<Record(1)>>
  /\ raw_conversations_json = Some(CacheOf(<<1>>))
  /\ requests = <<>>

\* C22: in a run over a list of ids every record that a fetch returned is
\* in the cache file from the step that took it on, so before the next id
\* is processed; when a later fetch fails and ends the run, the records
\* cached for the earlier ids are all still there.
C22_FetchedAreCached ==
  LET records == Cached
  IN  /\ \A k \in DOMAIN fetched :
           \E j \in DOMAIN records : records[j] = StrDict(fetched[k])
      /\ Len(records) >= Len(fetched)
      /\ (stage = "fetch") => (Len(fetched) < Len(done))

\* the run ends on the failed fetch of its second id, after it cached the first
C22_Witness ==
  /\ stage = "exit1"
  /\ pc = "raised"
  /\ Len(done) = 2
  /\ fetched = <<Record(done[1])>>
  /\ Cached = <<StrDict(Record(done[1]))>>

\* C27: every record that get_conversation returns has the id that was
\* asked for, compared as strings, whether it came from the GET or from the
\* fallback search.
C27_ReturnedHasRequestedId ==
  (InOne /\ pc = "returned") => The(result).id = Str(conversation_id)

\* no two records of the cache file have one id
NoDuplicate ==
  LET records == Cached
  IN  \A j, k \in DOMAIN records :
        (records[j].t = "dict" /\ records[k].t = "dict"
           /\ StrOfId(records[j]) = StrOfId(records[k])) => j = k

\* the cache file keeps the records it holds, in their places
NoLoss ==
  LET after == CachedIn(raw_conversations_json')
  IN  /\ Len(after) >= Len(Cached)
      /\ SubSeq(after, 1, Len(Cached)) = Cached

\* C29: from a cache file without two records of one id, whatever the calls
\* of process_single_conversation, the cache file never holds two records
\* of one id and never loses a record it held.
C29_NoDuplicateNoLoss == [](NoDuplicate) /\ [][NoLoss]_vars

(***************************************************************************)
(* Properties of the export command.                                       *)
(***************************************************************************)
\* C23: an error of the client that leaves get_conversations ends the
\* export: export_conversations exits with status 1, and neither was the
\* output file opened nor a conversation formatted before.
C23_ClientErrorEndsExport ==
  /\ []((InBatch /\ pc = "raised") =>
          /\ cli_stage \in {"fetch", "exit1"}
          /\ ~output_opened
          /\ formatted = 0)
  /\ [][(cli_stage = "fetch" /\ pc = "raised") => cli_stage' = "exit1"]_vars

\* the second batch of an export fails and the command has exited
C23_Witness ==
  /\ cli_stage = "exit1"
  /\ pc = "raised"
  /\ Len(requests) = 2
  /\ requests[1].ok
  /\ error.cls \in {"IntercomAPIError", "AuthenticationError", "RateLimitError"}
  /\ ~output_opened

====
